---- MODULE Spec2Model ----
(***************************************************************************)
(* Model of kalshi-rs: the single-market Orderbook (orderbook/book.rs) and *)
(* the multi-market OrderbookManager (orderbook/manager.rs).               *)
(*                                                                         *)
(* SpecBook drives one stand-alone Orderbook through its public methods.   *)
(* Spec drives an OrderbookManager through its public methods, one whole   *)
(* call per step (every call takes the locks it needs for its whole body,  *)
(* so a sequential caller sees each call as one step).                     *)
(* SpecConc shares the manager between two threads, one lock step at a     *)
(* time.  SpecWs drives a ReconnectingWebSocket (client/websocket.rs)      *)
(* through its calls and its reconnections.                                *)
(*                                                                         *)
(* Numbers: Price and Quantity are i64, sequence and sid are u64.  The     *)
(* model draws them from small ranges far from the type limits, where the  *)
(* casts `as Price`, `as Quantity` keep the value and `+ 1` does not wrap. *)
(***************************************************************************)
EXTENDS Integers, Sequences, FiniteSets, TLC

VARIABLES
    book,     \* a stand-alone Orderbook (SpecBook)
    bcall,    \* the last call made on `book`, with its arguments and result
    books,    \* OrderbookManager.books: market ticker -> OrderbookEntry
    last,     \* the last call made on the manager, with arguments and result
    outer,    \* the RwLock around the map of OrderbookManager.books
    elock,    \* the RwLock around each OrderbookEntry
    wpc,      \* where the thread that feeds process_message stands
    wev,      \* the message that thread is processing, and its locals
    rpc,      \* where the thread that calls the read accessors stands
    rcall,    \* the accessor that thread is in, and its locals
    seen,     \* the sets of markets needing resync that held at the instants
              \* of the markets_needing_resync call in progress
    tpc,      \* where each of two threads calling the manager at once stands
    tcall,    \* the call each of those threads is in, and its locals
    ws,       \* a ReconnectingWebSocket, its client and where its caller stands
    client,   \* a stand-alone WebSocketClient
    ccall     \* the last call made on `client`, with its arguments and result

concVars == <<outer, elock, wpc, wev, rpc, rcall, seen, tpc, tcall>>

netVars == <<ws, client, ccall>>

vars == <<book, bcall, books, last, concVars, netVars>>

----------------------------------------------------------------------------
(* Bounds of the model *)

\* largest sequence number an event carries
MaxSeq == 2
\* largest quantity a level of the model holds, and a snapshot level carries
MaxQty == 2
\* largest number of levels (yes and no together) in one snapshot
MaxLevels == 2

Sides == {"yes", "no"}
\* prices of the stand-alone book; closed under p -> 100 - p
BookPrices == {40, 60}
Seqs == 0..MaxSeq
\* a delta carries a sequence up to MaxSeq + 1; no book is taken past MaxSeq
DeltaSeqs == 0..(MaxSeq + 1)
Quantities == 0..MaxQty
Deltas == (0 - MaxQty)..MaxQty
Sids == {1, 2}

\* a snapshot level is the array [price, quantity]
Levels == {<<p, q>> : p \in BookPrices, q \in Quantities}

RECURSIVE ListsOfLen(_, _)
ListsOfLen(S, n) ==
    IF n = 0 THEN {<<>>}
    ELSE {<<x>> \o l : x \in S, l \in ListsOfLen(S, n - 1)}

ListsUpTo(S, n) == UNION {ListsOfLen(S, k) : k \in 0..n}

\* the (yes, no) level lists a snapshot call is checked on: up to MaxLevels
\* levels in all, so a price can come twice on one side
SnapshotPayloads ==
    {pl \in ListsUpTo(Levels, MaxLevels) \X ListsUpTo(Levels, MaxLevels) :
        Len(pl[1]) + Len(pl[2]) <= MaxLevels}

\* the (yes, no) level lists of the snapshots applied between other calls:
\* at most one level a side
ShortPayloads == ListsUpTo(Levels, 1) \X ListsUpTo(Levels, 1)

----------------------------------------------------------------------------
(* BTreeMap<Price, Quantity>: a function whose domain is the set of keys *)

EmptyMap == [p \in {} |-> 0]

MapInsert(m, k, v) == [p \in DOMAIN m \cup {k} |-> IF p = k THEN v ELSE m[p]]

MapRemove(m, k) == [p \in DOMAIN m \ {k} |-> m[p]]

MapGetOr(m, k, d) == IF k \in DOMAIN m THEN m[k] ELSE d

SetMax(S) == CHOOSE x \in S : \A y \in S : y <= x
SetMin(S) == CHOOSE x \in S : \A y \in S : x <= y

----------------------------------------------------------------------------
(* Orderbook (book.rs) *)

None == [some |-> FALSE]
Some(v) == [some |-> TRUE, val |-> v]

OrderbookNew == [yes_bids |-> EmptyMap, yes_asks |-> EmptyMap, sequence |-> 0]

\* first loop of apply_snapshot: every yes level with quantity > 0 is inserted
RECURSIVE InsertYesLevels(_, _)
InsertYesLevels(m, levels) ==
    IF levels = <<>> THEN m
    ELSE LET price == Head(levels)[1]
             quantity == Head(levels)[2]
         IN InsertYesLevels(IF quantity > 0 THEN MapInsert(m, price, quantity)
                                            ELSE m,
                            Tail(levels))

\* second loop of apply_snapshot: a no level at P is a yes ask at 100 - P
RECURSIVE InsertNoLevels(_, _)
InsertNoLevels(m, levels) ==
    IF levels = <<>> THEN m
    ELSE LET no_price == Head(levels)[1]
             quantity == Head(levels)[2]
         IN InsertNoLevels(IF quantity > 0
                              THEN MapInsert(m, 100 - no_price, quantity)
                              ELSE m,
                           Tail(levels))

SnapshotKeepingLevels(b, yes, no, sequence) ==
    [yes_bids |-> InsertYesLevels(b.yes_bids, yes),
     yes_asks |-> InsertNoLevels(b.yes_asks, no),
     sequence |-> sequence]

\* the levels of a list added onto a map, price p of the list stored at f[p]
RECURSIVE AddLevels(_, _, _)
AddLevels(m, levels, f) ==
    IF levels = <<>> THEN m
    ELSE LET k == f[Head(levels)[1]]
             q == Head(levels)[2]
         IN AddLevels(IF q > 0 THEN MapInsert(m, k, MapGetOr(m, k, 0) + q)
                               ELSE m,
                      Tail(levels), f)

SnapshotAsDeltas(b, yes, no, sequence) ==
    [yes_bids |-> AddLevels(b.yes_bids, yes, [p \in 0..100 |-> p]),
     yes_asks |-> AddLevels(b.yes_asks, no, [p \in 0..100 |-> 100 - p]),
     sequence |-> sequence]

BookApplySnapshot(b, yes, no, sequence) ==
    [yes_bids |-> InsertYesLevels(EmptyMap, yes),
     yes_asks |-> InsertNoLevels(EmptyMap, no),
     sequence |-> sequence]

\* the gap test of apply_delta_msg
GapAcceptsRepeat(b, sequence) ==
    sequence # b.sequence + 1 /\ sequence # b.sequence /\ b.sequence # 0

SequenceGap(b, sequence) == sequence # b.sequence + 1 /\ b.sequence # 0

\* the level update written out in apply_delta_msg
DeltaMsgLevel(m, price, delta) ==
    IF delta = 0 THEN m
    ELSE IF delta < 0
         THEN LET decrease == 0 - delta
              IN IF price \in DOMAIN m
                    THEN IF m[price] <= decrease
                            THEN MapRemove(m, price)
                            ELSE [m EXCEPT ![price] = @ - decrease]
                    ELSE m
         ELSE MapInsert(m, price, MapGetOr(m, price, 0) + delta)

DeltaMsgKeepingSequence(b, side, price, delta, sequence) ==
    IF SequenceGap(b, sequence)
       THEN [book |-> b, ok |-> FALSE]
       ELSE [book |-> IF side = "yes"
                         THEN [b EXCEPT !.yes_bids =
                                   DeltaMsgLevel(@, price, delta)]
                         ELSE [b EXCEPT !.yes_asks =
                                   DeltaMsgLevel(@, 100 - price, delta)],
             ok |-> TRUE]

DeltaMsgBeforeGapTest(b, side, price, delta, sequence) ==
    LET nb == IF side = "yes"
                 THEN [b EXCEPT !.yes_bids = DeltaMsgLevel(@, price, delta)]
                 ELSE [b EXCEPT !.yes_asks = DeltaMsgLevel(@, 100 - price, delta)]
    IN IF SequenceGap(b, sequence)
          THEN [book |-> nb, ok |-> FALSE]
          ELSE [book |-> [nb EXCEPT !.sequence = sequence], ok |-> TRUE]

\* an apply_delta_msg that updates the map of the side at the price of the
\* message
DeltaMsgAtGivenPrice(b, side, price, delta, sequence) ==
    IF SequenceGap(b, sequence)
       THEN [book |-> b, ok |-> FALSE]
       ELSE LET sb == [b EXCEPT !.sequence = sequence]
            IN [book |-> IF side = "yes"
                            THEN [sb EXCEPT !.yes_bids =
                                      DeltaMsgLevel(@, price, delta)]
                            ELSE [sb EXCEPT !.yes_asks =
                                      DeltaMsgLevel(@, price, delta)],
                ok |-> TRUE]

\* apply_delta_msg: the book afterwards and the value returned
BookApplyDeltaMsg(b, side, price, delta, sequence) ==
    IF SequenceGap(b, sequence)
       THEN [book |-> b, ok |-> FALSE]
       ELSE LET sb == [b EXCEPT !.sequence = sequence]
            IN [book |-> IF side = "yes"
                            THEN [sb EXCEPT !.yes_bids =
                                      DeltaMsgLevel(@, price, delta)]
                            ELSE [sb EXCEPT !.yes_asks =
                                      DeltaMsgLevel(@, 100 - price, delta)],
                ok |-> TRUE]

ApplyDeltaKeepingZero(b, price, delta, side) ==
    LET upd(m) ==
            IF delta = 0 THEN m
            ELSE IF delta < 0
                 THEN LET decrease == 0 - delta
                      IN IF price \in DOMAIN m
                            THEN IF m[price] < decrease
                                    THEN MapRemove(m, price)
                                    ELSE [m EXCEPT ![price] = @ - decrease]
                            ELSE m
                 ELSE MapInsert(m, price, MapGetOr(m, price, 0) + delta)
    IN IF side = "yes" THEN [b EXCEPT !.yes_bids = upd(@)]
                       ELSE [b EXCEPT !.yes_asks = upd(@)]

\* apply_delta: the manual update; the side picks the map, the price is kept
BookApplyDelta(b, price, delta, side) ==
    LET upd(m) ==
            IF delta = 0 THEN m
            ELSE IF delta < 0
                 THEN LET decrease == 0 - delta
                      IN IF price \in DOMAIN m
                            THEN IF m[price] <= decrease
                                    THEN MapRemove(m, price)
                                    ELSE [m EXCEPT ![price] = @ - decrease]
                            ELSE m
                 ELSE MapInsert(m, price, MapGetOr(m, price, 0) + delta)
    IN IF side = "yes" THEN [b EXCEPT !.yes_bids = upd(@)]
                       ELSE [b EXCEPT !.yes_asks = upd(@)]

SetLevelStoringZero(b, price, quantity, side) ==
    IF side = "yes"
       THEN [b EXCEPT !.yes_bids = MapInsert(@, price, quantity)]
       ELSE [b EXCEPT !.yes_asks = MapInsert(@, price, quantity)]

SetLevelInverting(b, price, quantity, side) ==
    LET upd(m, k) == IF quantity = 0 THEN MapRemove(m, k)
                                     ELSE MapInsert(m, k, quantity)
    IN IF side = "yes" THEN [b EXCEPT !.yes_bids = upd(@, price)]
                       ELSE [b EXCEPT !.yes_asks = upd(@, 100 - price)]

\* set_level: the side picks the map, the price is kept
BookSetLevel(b, price, quantity, side) ==
    LET upd(m) == IF quantity = 0 THEN MapRemove(m, price)
                                  ELSE MapInsert(m, price, quantity)
    IN IF side = "yes" THEN [b EXCEPT !.yes_bids = upd(@)]
                       ELSE [b EXCEPT !.yes_asks = upd(@)]

BookClear(b) == [yes_bids |-> EmptyMap, yes_asks |-> EmptyMap, sequence |-> 0]

BestBid(b) ==
    IF DOMAIN b.yes_bids = {} THEN None
    ELSE LET p == SetMax(DOMAIN b.yes_bids) IN Some(<<p, b.yes_bids[p]>>)

BestAsk(b) ==
    IF DOMAIN b.yes_asks = {} THEN None
    ELSE LET p == SetMin(DOMAIN b.yes_asks) IN Some(<<p, b.yes_asks[p]>>)

\* i64::saturating_sub: a - b, clamped at the limits of i64 only; the prices
\* of the model are far from them
SaturatingSub(a, b) == a - b

\* spread: ask.saturating_sub(bid) on the best prices
Spread(b) ==
    IF BestBid(b).some /\ BestAsk(b).some
       THEN Some(SaturatingSub(BestAsk(b).val[1], BestBid(b).val[1]))
       ELSE None

CrossedStrict(b) ==
    IF BestBid(b).some /\ BestAsk(b).some
       THEN BestBid(b).val[1] > BestAsk(b).val[1]
       ELSE FALSE

\* is_crossed: best bid >= best ask when both exist
IsCrossed(b) ==
    IF BestBid(b).some /\ BestAsk(b).some
       THEN BestBid(b).val[1] >= BestAsk(b).val[1]
       ELSE FALSE

\* the map a side names in apply_delta and set_level
SideMap(b, side) == IF side = "yes" THEN b.yes_bids ELSE b.yes_asks

\* the model's cap on a book: quantities up to MaxQty, sequence up to MaxSeq
WithinCap(b) ==
    /\ \A p \in DOMAIN b.yes_bids : b.yes_bids[p] <= MaxQty
    /\ \A p \in DOMAIN b.yes_asks : b.yes_asks[p] <= MaxQty
    /\ b.sequence <= MaxSeq

----------------------------------------------------------------------------
(* The stand-alone book: one step per method call *)

NoCall == [op |-> "none"]

CallSnapshot ==
    \E pl \in ShortPayloads, s \in Seqs :
        /\ book' = BookApplySnapshot(book, pl[1], pl[2], s)
        /\ bcall' = [op |-> "apply_snapshot", yes |-> pl[1], no |-> pl[2],
                     sequence |-> s]
        /\ UNCHANGED <<books, last, concVars, netVars>>

CallDeltaMsg ==
    \E side \in Sides, p \in BookPrices, d \in Deltas, s \in DeltaSeqs :
        LET r == BookApplyDeltaMsg(book, side, p, d, s)
        IN /\ WithinCap(r.book)
           /\ book' = r.book
           /\ bcall' = [op |-> "apply_delta_msg", sequence |-> s,
                        pre |-> book.sequence, ok |-> r.ok]
           /\ UNCHANGED <<books, last, concVars, netVars>>

CallApplyDelta ==
    \E side \in Sides, p \in BookPrices, d \in Deltas :
        LET nb == BookApplyDelta(book, p, d, side)
        IN /\ WithinCap(nb)
           /\ book' = nb
           /\ bcall' = [op |-> "apply_delta", side |-> side, price |-> p,
                        delta |-> d, q |-> MapGetOr(SideMap(book, side), p, 0)]
           /\ UNCHANGED <<books, last, concVars, netVars>>

CallSetLevel ==
    \E side \in Sides, p \in BookPrices, q \in Quantities :
        /\ book' = BookSetLevel(book, p, q, side)
        /\ bcall' = [op |-> "set_level", side |-> side, price |-> p,
                     quantity |-> q]
        /\ UNCHANGED <<books, last, concVars, netVars>>

CallClear ==
    /\ book' = BookClear(book)
    /\ bcall' = [op |-> "clear"]
    /\ UNCHANGED <<books, last, concVars, netVars>>

----------------------------------------------------------------------------
(* OrderbookManager (manager.rs) *)

Markets == {"A", "B"}

\* what the manager's events carry in the model: one price, quantity 1,
\* a delta of one contract either way
EventPrices == {40}
EventPayloads == {<<<<>>, <<>>>>,
                  <<<<<<40, 1>>>>, <<>>>>,
                  <<<<<<40, 1>>>>, <<<<40, 1>>>>>>}
EventDeltas == {-1, 1}
EventQuantities == {0, 1}

OkSome(t) == [kind |-> "ok", val |-> Some(t)]
OkNone == [kind |-> "ok", val |-> None]
OkBool(b) == [kind |-> "ok", val |-> b]
ErrSequenceGap(e, g) == [kind |-> "sequence_gap", expected |-> e, got |-> g]

\* the entry add_market inserts
NewEntry ==
    [book |-> OrderbookNew, state |-> "WaitingForSnapshot",
     subscription_id |-> None]

AddMarketReplacing(bs, m) == MapInsert(bs, m, NewEntry)

\* add_market: entry(ticker).or_insert_with(..)
ManagerAddMarket(bs, m) ==
    IF m \in DOMAIN bs THEN bs ELSE MapInsert(bs, m, NewEntry)

ManagerRemoveMarket(bs, m) == MapRemove(bs, m)

ManagerSetSubscriptionId(bs, m, sid) ==
    IF m \in DOMAIN bs THEN [bs EXCEPT ![m].subscription_id = Some(sid)]
    ELSE bs

ManagerGetState(bs, m) ==
    IF m \in DOMAIN bs THEN Some(bs[m].state) ELSE None

MarkSynchronized(bs, m) ==
    IF m \in DOMAIN bs THEN [bs EXCEPT ![m].state = "Synchronized"] ELSE bs

\* a mark_needs_resync that sends the market back to wait for a snapshot
MarkWaitingForSnapshot(bs, m) ==
    IF m \in DOMAIN bs THEN [bs EXCEPT ![m].state = "WaitingForSnapshot"] ELSE bs

ManagerMarkNeedsResync(bs, m) ==
    IF m \in DOMAIN bs THEN [bs EXCEPT ![m].state = "NeedsResync"] ELSE bs

ManagerClear(bs) == EmptyMap

\* what apply_snapshot does to the entry it has locked
SnapshotEntry(e, yes, no, seq, sid) ==
    [book |-> BookApplySnapshot(e.book, yes, no, seq),
     state |-> "Synchronized",
     subscription_id |-> Some(sid)]

SnapshotKnownOnly(bs, m, yes, no, seq, sid) ==
    IF m \in DOMAIN bs
       THEN [bs EXCEPT ![m] = SnapshotEntry(@, yes, no, seq, sid)]
       ELSE bs

\* apply_snapshot: a market not tracked is added first
ManagerApplySnapshot(bs, m, yes, no, seq, sid) ==
    IF m \in DOMAIN bs
       THEN [bs EXCEPT ![m] = SnapshotEntry(@, yes, no, seq, sid)]
       ELSE LET added == ManagerAddMarket(bs, m)
            IN IF m \in DOMAIN added
                  THEN [added EXCEPT ![m] = SnapshotEntry(@, yes, no, seq, sid)]
                  ELSE added

DeltaGapMarksAll(bs, m, side, price, delta, seq) ==
    IF m \in DOMAIN bs
       THEN IF bs[m].state # "Synchronized"
               THEN [books |-> bs, res |-> OkBool(TRUE)]
               ELSE LET r == BookApplyDeltaMsg(bs[m].book, side, price, delta, seq)
                    IN IF r.ok
                          THEN [books |-> [bs EXCEPT ![m].book = r.book],
                                res |-> OkBool(TRUE)]
                          ELSE [books |-> [k \in DOMAIN bs |->
                                             [bs[k] EXCEPT !.state = "NeedsResync"]],
                                res |-> ErrSequenceGap(r.book.sequence + 1, seq)]
       ELSE [books |-> bs, res |-> OkBool(FALSE)]

DeltaIgnoringState(bs, m, side, price, delta, seq) ==
    IF m \in DOMAIN bs
       THEN LET r == BookApplyDeltaMsg(bs[m].book, side, price, delta, seq)
            IN IF r.ok
                  THEN [books |-> [bs EXCEPT ![m].book = r.book],
                        res |-> OkBool(TRUE)]
                  ELSE [books |-> [bs EXCEPT ![m].book = r.book,
                                             ![m].state = "NeedsResync"],
                        res |-> ErrSequenceGap(r.book.sequence + 1, seq)]
       ELSE [books |-> bs, res |-> OkBool(FALSE)]

\* apply_delta: the manager afterwards and the Result returned
ManagerApplyDelta(bs, m, side, price, delta, seq) ==
    IF m \in DOMAIN bs
       THEN IF bs[m].state # "Synchronized"
               THEN [books |-> bs, res |-> OkBool(TRUE)]
               ELSE LET r == BookApplyDeltaMsg(bs[m].book, side, price, delta, seq)
                    IN IF r.ok
                          THEN [books |-> [bs EXCEPT ![m].book = r.book],
                                res |-> OkBool(TRUE)]
                          ELSE [books |-> [bs EXCEPT ![m].book = r.book,
                                                     ![m].state = "NeedsResync"],
                                res |-> ErrSequenceGap(r.book.sequence + 1, seq)]
       ELSE [books |-> bs, res |-> OkBool(FALSE)]

\* process_message on an OrderbookSnapshot
ProcessSnapshot(bs, m, yes, no, seq, sid) ==
    [books |-> ManagerApplySnapshot(bs, m, yes, no, seq, sid),
     res |-> OkSome(m)]

\* process_message on an OrderbookDelta: `?` passes the error on
ProcessDelta(bs, m, side, price, delta, seq) ==
    LET r == ManagerApplyDelta(bs, m, side, price, delta, seq)
    IN [books |-> r.books,
        res |-> IF r.res.kind = "ok"
                   THEN IF r.res.val THEN OkSome(m) ELSE OkNone
                   ELSE r.res]

\* process_message on any other message
ProcessOther(bs) == [books |-> bs, res |-> OkNone]

\* the model's cap on the manager's books: quantities of EventQuantities,
\* sequences up to MaxSeq
ManagerWithinCap(bs) ==
    \A m \in DOMAIN bs :
        /\ \A p \in DOMAIN bs[m].book.yes_bids :
               bs[m].book.yes_bids[p] \in EventQuantities
        /\ \A p \in DOMAIN bs[m].book.yes_asks :
               bs[m].book.yes_asks[p] \in EventQuantities
        /\ bs[m].book.sequence <= MaxSeq

----------------------------------------------------------------------------
(* The manager: one step per call *)

AddMarket ==
    \E m \in Markets :
        /\ books' = ManagerAddMarket(books, m)
        /\ last' = [op |-> "add_market"]
        /\ UNCHANGED <<book, bcall, concVars, netVars>>

RemoveMarket ==
    \E m \in Markets :
        /\ books' = ManagerRemoveMarket(books, m)
        /\ last' = [op |-> "remove_market"]
        /\ UNCHANGED <<book, bcall, concVars, netVars>>

SetSubscriptionId ==
    \E m \in Markets, sid \in Sids :
        /\ books' = ManagerSetSubscriptionId(books, m, sid)
        /\ last' = [op |-> "set_subscription_id"]
        /\ UNCHANGED <<book, bcall, concVars, netVars>>

GetState ==
    \E m \in Markets :
        /\ books' = books
        /\ last' = [op |-> "get_state", res |-> ManagerGetState(books, m)]
        /\ UNCHANGED <<book, bcall, concVars, netVars>>

MarkNeedsResync ==
    \E m \in Markets :
        /\ books' = ManagerMarkNeedsResync(books, m)
        /\ last' = [op |-> "mark_needs_resync"]
        /\ UNCHANGED <<book, bcall, concVars, netVars>>

Clear ==
    /\ books' = ManagerClear(books)
    /\ last' = [op |-> "clear"]
    /\ UNCHANGED <<book, bcall, concVars, netVars>>

SnapshotEvent ==
    \E m \in Markets, pl \in EventPayloads, s \in Seqs, sid \in Sids :
        LET r == ProcessSnapshot(books, m, pl[1], pl[2], s, sid)
            call == [op |-> "snapshot", market |-> m, yes |-> pl[1],
                     no |-> pl[2], sequence |-> s, sid |-> sid, res |-> r.res,
                     again |-> FALSE]
        IN /\ books' = r.books
           \* again: the call before this one was the same snapshot
           /\ last' = [call EXCEPT !.again =
                          /\ last.op = "snapshot"
                          /\ [last EXCEPT !.again = FALSE] = call]
           /\ UNCHANGED <<book, bcall, concVars, netVars>>

DeltaEvent ==
    \E m \in Markets, side \in Sides, p \in EventPrices, d \in EventDeltas,
       s \in DeltaSeqs :
        LET r == ProcessDelta(books, m, side, p, d, s)
        IN /\ ManagerWithinCap(r.books)
           /\ books' = r.books
           /\ last' = [op |-> "delta", market |-> m, res |-> r.res]
           /\ UNCHANGED <<book, bcall, concVars, netVars>>

OtherEvent ==
    LET r == ProcessOther(books)
    IN /\ books' = r.books
       /\ last' = [op |-> "other", res |-> r.res]
       /\ UNCHANGED <<book, bcall, concVars, netVars>>

----------------------------------------------------------------------------
(* The manager shared by two threads: one feeds process_message with       *)
(* snapshots and deltas, one calls the read accessors.  A step is one lock  *)
(* operation or one assignment of the code.                                 *)

\* parking_lot::RwLock: any number of readers or one writer
NoThread == "none"
Unlocked == [readers |-> {}, writer |-> NoThread]

ReadAdmittedAlways(l) == TRUE

\* read() returns once no writer holds the lock
ReadAdmitted(l) == l.writer = NoThread
\* write() returns once nobody holds the lock
WriteAdmitted(l) == l.writer = NoThread /\ l.readers = {}

LockRead(l, t) == [l EXCEPT !.readers = @ \cup {t}]
UnlockRead(l, t) == [l EXCEPT !.readers = @ \ {t}]
LockWrite(l, t) == [l EXCEPT !.writer = t]
UnlockWrite(l, t) == [l EXCEPT !.writer = NoThread]

OneLockForAll(m) == "A"

\* every entry of the map has its own RwLock
LockOf(m) == m

\* no thread works on the manager
ConcIdle ==
    /\ outer = Unlocked
    /\ elock = [m \in Markets |-> Unlocked]
    /\ wpc = "idle"
    /\ wev = NoCall
    /\ rpc = "idle"
    /\ rcall = NoCall
    /\ seen = {}
    /\ tpc = [t \in {"t1", "t2"} |-> "idle"]
    /\ tcall = [t \in {"t1", "t2"} |-> [op |-> "none", market |-> "A",
                 seq |-> 0, added |-> FALSE, todo |-> {}, res |-> "none",
                 raced |-> FALSE, pre |-> 0]]

\* the messages the feeding thread processes
ConcEvents ==
    {[kind |-> "snapshot", market |-> m, yes |-> <<<<40, 1>>>>, no |-> <<>>,
      seq |-> 1, sid |-> 1, added |-> FALSE, pre |-> None] : m \in Markets}
    \cup
    {[kind |-> "snapshot", market |-> m, yes |-> <<>>, no |-> <<<<40, 1>>>>,
      seq |-> 2, sid |-> 2, added |-> FALSE, pre |-> None] : m \in Markets}
    \cup
    {[kind |-> "delta", market |-> m, side |-> "yes", price |-> 40,
      delta |-> 1, seq |-> 2, added |-> FALSE, pre |-> None] : m \in Markets}

OnlyNeedsResync(st) == st = "NeedsResync"

\* the filter of markets_needing_resync
NeedsResyncState(st) == st \in {"NeedsResync", "WaitingForSnapshot"}

\* the markets of the map that need a resync
Needing(bs) == {m \in DOMAIN bs : bs[m].state \in
                                     {"NeedsResync", "WaitingForSnapshot"}}

\* seen after a step that leaves the map as bs
SeenAfter(bs) ==
    IF rcall.op = "markets_needing_resync" THEN seen \cup {Needing(bs)}
    ELSE seen

\* apply_snapshot under the entry's write lock, one assignment a step:
\* the entry and the position after the step at position p
SnapshotWriteStep(e, p, ev) ==
    CASE p = "snap_clear" ->
           [entry |-> [e EXCEPT !.book.yes_bids = EmptyMap,
                                !.book.yes_asks = EmptyMap],
            pc |-> "snap_yes"]
      [] p = "snap_yes" ->
           [entry |-> [e EXCEPT !.book.yes_bids = InsertYesLevels(@, ev.yes)],
            pc |-> "snap_no"]
      [] p = "snap_no" ->
           [entry |-> [e EXCEPT !.book.yes_asks = InsertNoLevels(@, ev.no)],
            pc |-> "snap_seq"]
      [] p = "snap_seq" ->
           [entry |-> [e EXCEPT !.book.sequence = ev.seq],
            pc |-> "snap_state"]
      [] p = "snap_state" ->
           [entry |-> [e EXCEPT !.state = "Synchronized"], pc |-> "snap_sid"]
      [] p = "snap_sid" ->
           [entry |-> [e EXCEPT !.subscription_id = Some(ev.sid)],
            pc |-> "unlock_entry"]

\* apply_delta under the entry's write lock, one test or assignment a step
DeltaWriteStep(e, p, ev) ==
    CASE p = "delta_test" ->
           [entry |-> e,
            pc |-> IF e.state # "Synchronized" THEN "unlock_entry"
                   ELSE IF SequenceGap(e.book, ev.seq) THEN "delta_mark"
                   ELSE "delta_seq"]
      [] p = "delta_seq" ->
           [entry |-> [e EXCEPT !.book.sequence = ev.seq],
            pc |-> "delta_level"]
      [] p = "delta_level" ->
           [entry |-> IF ev.side = "yes"
                         THEN [e EXCEPT !.book.yes_bids =
                                   DeltaMsgLevel(@, ev.price, ev.delta)]
                         ELSE [e EXCEPT !.book.yes_asks =
                                   DeltaMsgLevel(@, 100 - ev.price, ev.delta)],
            pc |-> "unlock_entry"]
      [] p = "delta_mark" ->
           [entry |-> [e EXCEPT !.state = "NeedsResync"],
            pc |-> "unlock_entry"]

SnapshotSection == {"snap_clear", "snap_yes", "snap_no", "snap_seq",
                    "snap_state", "snap_sid"}
DeltaSection == {"delta_test", "delta_seq", "delta_level", "delta_mark"}

\* what an accessor returns for an entry
ManagerRead(op, e) ==
    CASE op = "get_state" -> Some(e.state)
      [] op = "get_orderbook" -> Some(e.book)
      [] op = "best_bid" -> BestBid(e.book)
      [] op = "best_ask" -> BestAsk(e.book)
      [] op = "spread" -> Spread(e.book)

ReadOps == {"get_state", "get_orderbook", "best_bid", "best_ask", "spread"}

\* what a step of the feeding thread leaves alone
WriterFrame ==
    /\ seen' = SeenAfter(books')
    /\ UNCHANGED <<book, bcall, last, rpc, rcall, tpc, tcall, netVars>>

\* process_message is called with a snapshot or a delta
WBegin ==
    /\ wpc = "idle"
    /\ \E ev \in ConcEvents : wev' = ev
    /\ wpc' = "lookup"
    /\ UNCHANGED <<books, outer, elock>>
    /\ WriterFrame

\* self.books.read() and books.get(ticker)
WLookup ==
    /\ wpc = "lookup"
    /\ ReadAdmitted(outer)
    /\ outer' = LockRead(outer, "w")
    /\ IF wev.market \in DOMAIN books
          THEN /\ wpc' = "lock_entry"
               /\ wev' = [wev EXCEPT !.pre = Some(books[wev.market])]
          ELSE /\ wpc' = IF wev.kind = "snapshot" /\ ~wev.added
                            THEN "drop" ELSE "unlock_outer"
               /\ wev' = wev
    /\ UNCHANGED <<books, elock>>
    /\ WriterFrame

\* apply_snapshot on a market not tracked: drop(books)
WDrop ==
    /\ wpc = "drop"
    /\ outer' = UnlockRead(outer, "w")
    /\ wpc' = "add"
    /\ UNCHANGED <<books, elock, wev>>
    /\ WriterFrame

\* apply_snapshot on a market not tracked: self.add_market(ticker), which
\* takes the write lock of the map, inserts and releases
WAdd ==
    /\ wpc = "add"
    /\ WriteAdmitted(outer)
    /\ books' = ManagerAddMarket(books, wev.market)
    /\ wev' = [wev EXCEPT !.added = TRUE]
    /\ wpc' = "lookup"
    /\ UNCHANGED <<outer, elock>>
    /\ WriterFrame

\* entry.write()
WLockEntry ==
    /\ wpc = "lock_entry"
    /\ WriteAdmitted(elock[LockOf(wev.market)])
    /\ elock' = [elock EXCEPT ![LockOf(wev.market)] = LockWrite(@, "w")]
    /\ wpc' = IF wev.kind = "snapshot" THEN "snap_clear" ELSE "delta_test"
    /\ UNCHANGED <<books, outer, wev>>
    /\ WriterFrame

\* one assignment of apply_snapshot on the locked entry
WSnapshotWrite ==
    /\ wpc \in SnapshotSection
    /\ LET r == SnapshotWriteStep(books[wev.market], wpc, wev)
       IN /\ books' = [books EXCEPT ![wev.market] = r.entry]
          /\ wpc' = r.pc
    /\ UNCHANGED <<outer, elock, wev>>
    /\ WriterFrame

\* one test or assignment of apply_delta on the locked entry
WDeltaWrite ==
    /\ wpc \in DeltaSection
    /\ LET r == DeltaWriteStep(books[wev.market], wpc, wev)
       IN /\ books' = [books EXCEPT ![wev.market] = r.entry]
          /\ wpc' = r.pc
    /\ UNCHANGED <<outer, elock, wev>>
    /\ WriterFrame

\* the entry's write guard goes out of scope
WUnlockEntry ==
    /\ wpc = "unlock_entry"
    /\ elock' = [elock EXCEPT ![LockOf(wev.market)] = UnlockWrite(@, "w")]
    /\ wpc' = "unlock_outer"
    /\ UNCHANGED <<books, outer, wev>>
    /\ WriterFrame

\* the map's read guard goes out of scope and process_message returns
WUnlockOuter ==
    /\ wpc = "unlock_outer"
    /\ outer' = UnlockRead(outer, "w")
    /\ wpc' = "idle"
    /\ wev' = NoCall
    /\ UNCHANGED <<books, elock>>
    /\ WriterFrame

\* what a step of the reading thread leaves alone
ReaderFrame ==
    UNCHANGED <<book, bcall, books, last, wpc, wev, tpc, tcall, netVars>>

\* get_state, get_orderbook, best_bid, best_ask or spread is called
RBegin ==
    /\ rpc = "idle"
    /\ \E op \in ReadOps, m \in Markets :
           rcall' = [op |-> op, market |-> m, res |-> None]
    /\ rpc' = "lookup"
    /\ UNCHANGED <<outer, elock, seen>>
    /\ ReaderFrame

\* markets_needing_resync is called
RBeginAll ==
    /\ rpc = "idle"
    /\ rcall' = [op |-> "markets_needing_resync", todo |-> {}, acc |-> {},
                 market |-> "", res |-> None]
    /\ rpc' = "lookup"
    /\ seen' = {Needing(books)}
    /\ UNCHANGED <<outer, elock>>
    /\ ReaderFrame

\* self.books.read(), then books.get(ticker) or books.iter()
RLookup ==
    /\ rpc = "lookup"
    /\ ReadAdmitted(outer)
    /\ outer' = LockRead(outer, "r")
    /\ IF rcall.op = "markets_needing_resync"
          THEN /\ rcall' = [rcall EXCEPT !.todo = DOMAIN books]
               /\ rpc' = "iter"
          ELSE /\ rcall' = rcall
               /\ rpc' = IF rcall.market \in DOMAIN books
                            THEN "lock_entry" ELSE "unlock_outer"
    /\ UNCHANGED <<elock, seen>>
    /\ ReaderFrame

\* the iterator of markets_needing_resync yields the next entry, in the
\* map's own order, and the filter calls entry.read() on it; after the last
\* entry the result is collected
RIter ==
    /\ rpc = "iter"
    /\ IF rcall.todo = {}
          THEN /\ rcall' = [rcall EXCEPT !.res = Some(rcall.acc)]
               /\ rpc' = "unlock_outer"
               /\ elock' = elock
          ELSE \E m \in rcall.todo :
                 /\ ReadAdmitted(elock[LockOf(m)])
                 /\ elock' = [elock EXCEPT ![LockOf(m)] = LockRead(@, "r")]
                 /\ rcall' = [rcall EXCEPT !.market = m]
                 /\ rpc' = "test"
    /\ UNCHANGED <<outer, seen>>
    /\ ReaderFrame

\* the filter of markets_needing_resync tests the state and drops the guard
RTest ==
    /\ rpc = "test"
    /\ rcall' = [rcall EXCEPT
                   !.acc = IF NeedsResyncState(books[rcall.market].state)
                              THEN @ \cup {rcall.market} ELSE @,
                   !.todo = @ \ {rcall.market}]
    /\ elock' = [elock EXCEPT ![LockOf(rcall.market)] = UnlockRead(@, "r")]
    /\ rpc' = "iter"
    /\ UNCHANGED <<outer, seen>>
    /\ ReaderFrame

\* an accessor calls e.read()
RLockEntry ==
    /\ rpc = "lock_entry"
    /\ ReadAdmitted(elock[LockOf(rcall.market)])
    /\ elock' = [elock EXCEPT ![LockOf(rcall.market)] = LockRead(@, "r")]
    /\ rpc' = "read"
    /\ UNCHANGED <<outer, rcall, seen>>
    /\ ReaderFrame

\* an accessor reads the entry and drops the entry's guard
RRead ==
    /\ rpc = "read"
    /\ rcall' = [rcall EXCEPT !.res = ManagerRead(rcall.op, books[rcall.market])]
    /\ elock' = [elock EXCEPT ![LockOf(rcall.market)] = UnlockRead(@, "r")]
    /\ rpc' = "unlock_outer"
    /\ UNCHANGED <<outer, seen>>
    /\ ReaderFrame

\* the map's read guard goes out of scope and the call returns rcall.res
RUnlockOuter ==
    /\ rpc = "unlock_outer"
    /\ outer' = UnlockRead(outer, "r")
    /\ rpc' = "idle"
    /\ rcall' = NoCall
    /\ seen' = {}
    /\ UNCHANGED elock
    /\ ReaderFrame

ReaderNext ==
    \/ RBegin
    \/ RBeginAll
    \/ RLookup
    \/ RIter
    \/ RTest
    \/ RLockEntry
    \/ RRead
    \/ RUnlockOuter

NextConc ==
    \/ WBegin
    \/ WLookup
    \/ WDrop
    \/ WAdd
    \/ WLockEntry
    \/ WSnapshotWrite
    \/ WDeltaWrite
    \/ WUnlockEntry
    \/ WUnlockOuter
    \/ ReaderNext

----------------------------------------------------------------------------
(* Any two threads call the manager at once (orderbook/manager.rs): each   *)
(* runs add_market, remove_market, a snapshot, a delta, get_state or       *)
(* markets_needing_resync, one lock operation or guarded section a step.   *)

Threads == {"t1", "t2"}

ParIdle ==
    [op |-> "none", market |-> "A", seq |-> 0, added |-> FALSE,
     todo |-> {}, res |-> "none", raced |-> FALSE, pre |-> 0]

\* the calls a thread makes: the snapshot carries yes [[40, 1]] with
\* sequence 1, the delta is (yes, 40, +1) with sequence 2
ParCalls ==
    {[ParIdle EXCEPT !.op = "add_market", !.market = m] : m \in Markets}
    \cup {[ParIdle EXCEPT !.op = "remove_market"],
          [ParIdle EXCEPT !.op = "apply_snapshot", !.seq = 1],
          [ParIdle EXCEPT !.op = "apply_delta", !.seq = 2],
          [ParIdle EXCEPT !.op = "get_state"],
          [ParIdle EXCEPT !.op = "markets_needing_resync"]}

\* the calls that take the entry's lock with write()
EntryWriters == {"apply_snapshot", "apply_delta"}

\* the locks thread t holds
HoldsOuterRead(t) == t \in outer.readers
HoldsOuterWrite(t) == outer.writer = t
EntriesHeld(t) ==
    {m \in Markets : t \in elock[m].readers \/ elock[m].writer = t}

\* a thread parked in self.books.write()
OuterWriterWaits == \E u \in Threads : tpc[u] = "write_outer"
\* a thread other than t parked in entry.write() of market m
EntryWriterWaits(t, m) ==
    \E u \in Threads \ {t} : /\ tpc[u] = "lock_entry"
                             /\ tcall[u].market = m
                             /\ tcall[u].op \in EntryWriters

GrantedUnguarded(t) ==
    CASE tpc[t] = "write_outer" -> WriteAdmitted(outer)
      [] tpc[t] = "lookup" -> ReadAdmitted(outer)
      [] OTHER -> TRUE

\* the lock request thread t stands at is granted by a lock that favours
\* neither side
Granted(t) ==
    CASE tpc[t] = "write_outer" -> WriteAdmitted(outer)
      [] tpc[t] = "lookup" -> ReadAdmitted(outer)
      [] tpc[t] = "lock_entry" ->
           IF tcall[t].op \in EntryWriters
              THEN WriteAdmitted(elock[LockOf(tcall[t].market)])
              ELSE ReadAdmitted(elock[LockOf(tcall[t].market)])
      [] OTHER -> TRUE

\* the same request under parking_lot's policy, where a reader also waits
\* while a writer is parked on the lock
GrantedFair(t) ==
    CASE tpc[t] = "lookup" -> ReadAdmitted(outer) /\ ~OuterWriterWaits
      [] tpc[t] = "lock_entry" /\ tcall[t].op \notin EntryWriters ->
           /\ ReadAdmitted(elock[LockOf(tcall[t].market)])
           /\ ~EntryWriterWaits(t, tcall[t].market)
      [] OTHER -> Granted(t)

KeepBooks(l, t) == l

\* drop(books) in the else branch of apply_snapshot
DropBooks(l, t) == UnlockRead(l, t)

\* what a step of a calling thread leaves alone
ParFrame ==
    UNCHANGED <<book, bcall, last, wpc, wev, rpc, rcall, seen, netVars>>

\* thread t moves to position p with call record c
ParGo(t, p, c) ==
    /\ tpc' = [tpc EXCEPT ![t] = p]
    /\ tcall' = [tcall EXCEPT ![t] = c]

\* a thread enters one of the manager's methods
TBegin ==
    \E t \in Threads, c \in ParCalls :
        /\ tpc[t] = "idle"
        /\ ParGo(t, IF c.op \in {"add_market", "remove_market"}
                       THEN "write_outer" ELSE "lookup", c)
        /\ UNCHANGED <<books, outer, elock>>
        /\ ParFrame

\* self.books.write() returns
TWriteOuter ==
    \E t \in Threads :
        /\ tpc[t] = "write_outer"
        /\ Granted(t)
        /\ outer' = LockWrite(outer, t)
        /\ ParGo(t, "map", tcall[t])
        /\ UNCHANGED <<books, elock>>
        /\ ParFrame

\* the map is changed under the write guard, which is dropped at the end of
\* add_market and remove_market
TMap ==
    \E t \in Threads :
        /\ tpc[t] = "map"
        /\ books' = IF tcall[t].op = "remove_market"
                       THEN ManagerRemoveMarket(books, tcall[t].market)
                       ELSE ManagerAddMarket(books, tcall[t].market)
        /\ outer' = UnlockWrite(outer, t)
        /\ IF tcall[t].op = "apply_snapshot"
              THEN ParGo(t, "lookup", tcall[t])
              ELSE ParGo(t, "idle", [tcall[t] EXCEPT !.res = "done"])
        /\ UNCHANGED elock
        /\ ParFrame

\* the other thread stands between books.get and entry.write() with the
\* same delta as thread t, for a Synchronized market whose last sequence is
\* one below the delta's
RacesWith(t, u) ==
    /\ u # t
    /\ tcall[t].op = "apply_delta"
    /\ tcall[u].op = "apply_delta"
    /\ tpc[u] = "lock_entry"
    /\ tcall[u].market = tcall[t].market
    /\ tcall[u].seq = tcall[t].seq
    /\ tcall[t].market \in DOMAIN books
    /\ books[tcall[t].market].state = "Synchronized"
    /\ books[tcall[t].market].book.sequence + 1 = tcall[t].seq

\* self.books.read() returns and the ticker is looked up
TLookup ==
    \E t \in Threads :
        LET c == tcall[t]
            racing == \E u \in Threads : RacesWith(t, u)
            mark(r) == IF racing
                          THEN [r EXCEPT !.raced = TRUE,
                                         !.pre = MapGetOr(
                                             books[c.market].book.yes_bids,
                                             40, 0)]
                          ELSE r
        IN /\ tpc[t] = "lookup"
           /\ Granted(t)
           /\ outer' = LockRead(outer, t)
           /\ tpc' = [tpc EXCEPT ![t] =
                  IF c.op = "markets_needing_resync" THEN "iter"
                  ELSE IF c.market \in DOMAIN books THEN "lock_entry"
                  ELSE IF c.op = "apply_snapshot" /\ ~c.added THEN "drop"
                  ELSE "unlock_outer"]
           /\ tcall' = [u \in Threads |->
                  IF u = t
                     THEN mark([c EXCEPT
                              !.todo = IF c.op = "markets_needing_resync"
                                          THEN DOMAIN books ELSE {},
                              !.res = IF c.market \in DOMAIN books
                                         THEN @ ELSE "untracked"])
                     ELSE mark(tcall[u])]
           /\ UNCHANGED <<books, elock>>
           /\ ParFrame

\* apply_snapshot gives up its read guard to call add_market
TDrop ==
    \E t \in Threads :
        /\ tpc[t] = "drop"
        /\ outer' = DropBooks(outer, t)
        /\ ParGo(t, "write_outer", [tcall[t] EXCEPT !.added = TRUE])
        /\ UNCHANGED <<books, elock>>
        /\ ParFrame

\* the filter of markets_needing_resync reaches the next entry of the map
TIter ==
    \E t \in Threads :
        /\ tpc[t] = "iter"
        /\ IF tcall[t].todo = {}
              THEN ParGo(t, "unlock_outer", [tcall[t] EXCEPT !.res = "done"])
              ELSE \E m \in tcall[t].todo :
                       ParGo(t, "lock_entry",
                             [tcall[t] EXCEPT !.market = m, !.todo = @ \ {m}])
        /\ UNCHANGED <<books, outer, elock>>
        /\ ParFrame

\* entry.write() or entry.read() returns
TLockEntry ==
    \E t \in Threads :
        LET c == tcall[t]
            k == LockOf(c.market)
        IN /\ tpc[t] = "lock_entry"
           /\ Granted(t)
           /\ elock' = [elock EXCEPT ![k] =
                  IF c.op \in EntryWriters THEN LockWrite(@, t)
                  ELSE LockRead(@, t)]
           /\ ParGo(t, CASE c.op = "apply_snapshot" -> "snap"
                         [] c.op = "apply_delta" -> "delta_test"
                         [] OTHER -> "read", c)
           /\ UNCHANGED <<books, outer>>
           /\ ParFrame

\* apply_snapshot writes the entry it has locked
TSnapshot ==
    \E t \in Threads :
        /\ tpc[t] = "snap"
        /\ books' = [books EXCEPT ![tcall[t].market] =
               SnapshotEntry(@, <<<<40, 1>>>>, <<>>, tcall[t].seq, 1)]
        /\ ParGo(t, "unlock_entry", [tcall[t] EXCEPT !.res = "done"])
        /\ UNCHANGED <<outer, elock>>
        /\ ParFrame

\* apply_delta tests the state and the sequence number of the locked entry
TDeltaTest ==
    \E t \in Threads :
        LET r == DeltaWriteStep(books[tcall[t].market], "delta_test",
                                tcall[t])
        IN /\ tpc[t] = "delta_test"
           /\ ParGo(t, IF r.pc = "delta_seq" THEN "delta_apply" ELSE r.pc,
                    [tcall[t] EXCEPT !.res = IF r.pc = "unlock_entry"
                                                THEN "skipped" ELSE @])
           /\ UNCHANGED <<books, outer, elock>>
           /\ ParFrame

\* apply_delta_msg stores the sequence number and updates the level
TDeltaApply ==
    \E t \in Threads :
        LET c == tcall[t]
            ev == [seq |-> c.seq, side |-> "yes", price |-> 40,
                   delta |-> 1]
            e1 == DeltaWriteStep(books[c.market], "delta_seq", ev).entry
            e2 == DeltaWriteStep(e1, "delta_level", ev).entry
        IN /\ tpc[t] = "delta_apply"
           /\ books' = [books EXCEPT ![c.market] = e2]
           /\ ParGo(t, "unlock_entry", [c EXCEPT !.res = "applied"])
           /\ UNCHANGED <<outer, elock>>
           /\ ParFrame

\* apply_delta marks the entry after a gap and returns SequenceGap
TDeltaMark ==
    \E t \in Threads :
        LET c == tcall[t]
        IN /\ tpc[t] = "delta_mark"
           /\ books' = [books EXCEPT ![c.market] =
                  DeltaWriteStep(@, "delta_mark", c).entry]
           /\ ParGo(t, "unlock_entry", [c EXCEPT !.res = "gap"])
           /\ UNCHANGED <<outer, elock>>
           /\ ParFrame

\* get_state and the filter read the state of the locked entry
TRead ==
    \E t \in Threads :
        /\ tpc[t] = "read"
        /\ ParGo(t, "unlock_entry",
                 [tcall[t] EXCEPT !.res =
                      IF NeedsResyncState(books[tcall[t].market].state)
                         THEN "needs" ELSE "done"])
        /\ UNCHANGED <<books, outer, elock>>
        /\ ParFrame

\* the guard of the entry is dropped
TUnlockEntry ==
    \E t \in Threads :
        LET c == tcall[t]
            k == LockOf(c.market)
        IN /\ tpc[t] = "unlock_entry"
           /\ elock' = [elock EXCEPT ![k] =
                  IF c.op \in EntryWriters THEN UnlockWrite(@, t)
                  ELSE UnlockRead(@, t)]
           /\ ParGo(t, IF c.op = "markets_needing_resync" THEN "iter"
                       ELSE "unlock_outer", c)
           /\ UNCHANGED <<books, outer>>
           /\ ParFrame

\* the read guard of the map is dropped as the method returns
TUnlockOuter ==
    \E t \in Threads :
        /\ tpc[t] = "unlock_outer"
        /\ outer' = UnlockRead(outer, t)
        /\ ParGo(t, "idle", tcall[t])
        /\ UNCHANGED <<books, elock>>
        /\ ParFrame

NextPar ==
    \/ TBegin
    \/ TWriteOuter
    \/ TMap
    \/ TLookup
    \/ TDrop
    \/ TIter
    \/ TLockEntry
    \/ TSnapshot
    \/ TDeltaTest
    \/ TDeltaApply
    \/ TDeltaMark
    \/ TRead
    \/ TUnlockEntry
    \/ TUnlockOuter

----------------------------------------------------------------------------
(* WebSocketClient (client/websocket.rs): the commands it sends, the       *)
(* frames it reads, and its tables of pending and active subscriptions.     *)

\* most subscribe calls the caller makes
MaxLog == 2
\* ReconnectConfig.max_retries where it is limited
MaxRetries == 2
\* most attempts the model follows where max_retries = 0 sets no limit
MaxAttempts == 5
\* most commands the caller of a stand-alone client sends
MaxCmd == 2

\* the market ticker lists a caller passes
TickerLists == {<<"A">>}
OptTickerLists == {None} \cup {Some(t) : t \in TickerLists}

ClientMethods ==
    {"subscribe_orderbook", "subscribe_ticker", "subscribe_trades",
     "subscribe_fills", "subscribe_user_orders", "subscribe_market_lifecycle"}

\* the arguments a subscribe method takes: &[&str], Option<&[&str]> or none
ArgsOf(method) ==
    CASE method = "subscribe_orderbook" -> TickerLists
      [] method = "subscribe_user_orders" -> {None}
      [] OTHER -> OptTickerLists

\* the channel each method of WebSocketClient subscribes to
ChannelOf(method) ==
    CASE method = "subscribe_orderbook" -> "orderbook_delta"
      [] method = "subscribe_ticker" -> "ticker"
      [] method = "subscribe_trades" -> "trade"
      [] method = "subscribe_fills" -> "fill"
      [] method = "subscribe_user_orders" -> "user_orders"
      [] method = "subscribe_market_lifecycle" -> "market_lifecycle_v2"

\* SubscribeParams.market_tickers each method of WebSocketClient sends
MarketTickersOf(method, arg) ==
    CASE method = "subscribe_orderbook" -> Some(arg)
      [] method = "subscribe_user_orders" -> None
      [] OTHER -> arg

\* results of the calls
OkId(id) == [kind |-> "ok", id |-> id]
OkUnit == [kind |-> "ok"]
OkMsg(msg) == [kind |-> "msg", msg |-> msg]
Err(e) == [kind |-> "err", err |-> e]
EndOfStream == [kind |-> "none"]
NotReturned == [kind |-> "pending"]

\* WebSocketClient::connect: a new connection, nothing sent on it yet
ClientNew ==
    [message_id |-> 1, subscriptions |-> EmptyMap,
     pending_subscriptions |-> EmptyMap, sent |-> <<>>]

\* a send_command that writes the command and leaves the message id as it was
SendCommandKeepingId(c, cmd, ok) ==
    IF ok
    THEN [ok |-> TRUE, result |-> OkId(c.message_id),
          client |-> [c EXCEPT !.sent = Append(@, cmd)]]
    ELSE [ok |-> FALSE, result |-> Err("WebSocket"), client |-> c]

\* send_command: the command is written and the message id counted up; when
\* the write fails (ok = FALSE) the error is returned and the id stays
SendCommand(c, cmd, ok) ==
    IF ok
    THEN [ok |-> TRUE, result |-> OkId(c.message_id),
          client |-> [c EXCEPT !.sent = Append(@, cmd),
                               !.message_id = @ + 1]]
    ELSE [ok |-> FALSE, result |-> Err("WebSocket"), client |-> c]

\* a subscribe method of WebSocketClient: the request is noted as pending
\* under the message id, then the command is sent
ClientSubscribe(c, method, arg, ok) ==
    LET msg_id == c.message_id
        noted == [c EXCEPT !.pending_subscriptions =
                     MapInsert(@, msg_id,
                         [channel |-> ChannelOf(method),
                          market_tickers |-> MarketTickersOf(method, arg)])]
        cmd == [cmd |-> "subscribe", id |-> msg_id,
                channels |-> <<ChannelOf(method)>>,
                market_tickers |-> MarketTickersOf(method, arg)]
    IN  SendCommand(noted, cmd, ok)

\* an unsubscribe that takes the sids out of the active subscriptions as it
\* sends the command
UnsubscribeDroppingSids(c, sids, ok) ==
    SendCommand([c EXCEPT !.subscriptions =
                     [p \in DOMAIN @ \ {sids[i] : i \in 1..Len(sids)} |-> @[p]]],
                [cmd |-> "unsubscribe", id |-> c.message_id, sids |-> sids],
                ok)

\* unsubscribe
ClientUnsubscribe(c, sids, ok) ==
    SendCommand(c, [cmd |-> "unsubscribe", id |-> c.message_id,
                    sids |-> sids], ok)

\* update_subscription
ClientUpdateSubscription(c, sid, add, remove, ok) ==
    SendCommand(c, [cmd |-> "update_subscription", id |-> c.message_id,
                    sid |-> sid, market_tickers_add |-> add,
                    market_tickers_delete |-> remove], ok)

\* list_subscriptions
ClientListSubscriptions(c, ok) ==
    SendCommand(c, [cmd |-> "list_subscriptions", id |-> c.message_id], ok)

\* close: the sink is closed; no field of the client is assigned
ClientClose(c, ok) ==
    [ok |-> ok, result |-> IF ok THEN OkUnit ELSE Err("WebSocket"),
     client |-> c]

\* an acknowledgment that removes the pending record without adding to the
\* active subscriptions
TrackingDroppingPending(c, msg) ==
    CASE msg.type = "subscribed" ->
           IF msg.id.some /\ msg.id.val \in DOMAIN c.pending_subscriptions
           THEN [c EXCEPT !.pending_subscriptions = MapRemove(@, msg.id.val)]
           ELSE c
      [] msg.type = "unsubscribed" ->
           [c EXCEPT !.subscriptions = MapRemove(@, msg.sid)]
      [] OTHER -> c

\* an Unsubscribed acknowledgment that empties the active subscriptions
TrackingClearingAll(c, msg) ==
    CASE msg.type = "subscribed" ->
           IF msg.id.some /\ msg.id.val \in DOMAIN c.pending_subscriptions
           THEN LET pending == c.pending_subscriptions[msg.id.val]
                IN  [c EXCEPT
                       !.pending_subscriptions = MapRemove(@, msg.id.val),
                       !.subscriptions =
                           MapInsert(@, msg.sid,
                               [sid |-> msg.sid, channel |-> pending.channel,
                                market_tickers |-> pending.market_tickers])]
           ELSE c
      [] msg.type = "unsubscribed" ->
           [c EXCEPT !.subscriptions = EmptyMap]
      [] OTHER -> c

\* an acknowledgment that adds the active subscription and keeps the pending
\* record
TrackingKeepingPending(c, msg) ==
    CASE msg.type = "subscribed" ->
           IF msg.id.some /\ msg.id.val \in DOMAIN c.pending_subscriptions
           THEN LET pending == c.pending_subscriptions[msg.id.val]
                IN  [c EXCEPT
                       !.subscriptions =
                           MapInsert(@, msg.sid,
                               [sid |-> msg.sid, channel |-> pending.channel,
                                market_tickers |-> pending.market_tickers])]
           ELSE c
      [] msg.type = "unsubscribed" ->
           [c EXCEPT !.subscriptions = MapRemove(@, msg.sid)]
      [] OTHER -> c

\* handle_subscription_tracking: a Subscribed message whose id names a
\* pending request moves it to the active subscriptions under the sid of
\* the message; an Unsubscribed message removes the sid
HandleSubscriptionTracking(c, msg) ==
    CASE msg.type = "subscribed" ->
           IF msg.id.some /\ msg.id.val \in DOMAIN c.pending_subscriptions
           THEN LET pending == c.pending_subscriptions[msg.id.val]
                IN  [c EXCEPT
                       !.pending_subscriptions = MapRemove(@, msg.id.val),
                       !.subscriptions =
                           MapInsert(@, msg.sid,
                               [sid |-> msg.sid, channel |-> pending.channel,
                                market_tickers |-> pending.market_tickers])]
           ELSE c
      [] msg.type = "unsubscribed" ->
           [c EXCEPT !.subscriptions = MapRemove(@, msg.sid)]
      [] OTHER -> c

\* one frame read by WebSocketClient::next.  A text frame that parses is
\* tracked and returned, one that does not parse returns the error; a ping
\* is answered with a pong and the loop goes on (the error is returned when
\* the pong cannot be written); a close frame returns ConnectionClosed;
\* binary, pong and raw frames are skipped; the end of the stream returns
\* None; a transport error is returned.
ClientNext(c, frame) ==
    CASE frame.t = "text" ->
           [client |-> HandleSubscriptionTracking(c, frame.msg),
            result |-> OkMsg(frame.msg)]
      [] frame.t = "malformed" -> [client |-> c, result |-> Err("Json")]
      [] frame.t = "ping" ->
           [client |-> c,
            result |-> IF frame.pong THEN NotReturned ELSE Err("WebSocket")]
      [] frame.t = "close" -> [client |-> c, result |-> Err("ConnectionClosed")]
      [] frame.t = "skipped" -> [client |-> c, result |-> NotReturned]
      [] frame.t = "end" -> [client |-> c, result |-> EndOfStream]
      [] frame.t = "error" -> [client |-> c, result |-> Err("WebSocket")]

\* the message ids the server names in its acknowledgments
AckIds == {1, 2}

\* the messages of the server that the model reads: acknowledgments with
\* and without a message id, and a data message
Acks ==
    {[type |-> "subscribed", id |-> i, sid |-> s] :
        i \in {None} \cup {Some(n) : n \in AckIds}, s \in Sids}
    \cup {[type |-> "unsubscribed", sid |-> s] : s \in Sids}

DataMessages == {[type |-> "ticker"]}

\* the frames that carry no acknowledgment and make next return
ReturningFrames ==
    {[t |-> "text", msg |-> m] : m \in DataMessages}
    \cup {[t |-> "ping", pong |-> FALSE]}
    \cup {[t |-> x] : x \in {"malformed", "close", "end", "error"}}

\* the frames after which next reads on
PassedFrames == {[t |-> "ping", pong |-> TRUE], [t |-> "skipped"]}

PlainFrames == ReturningFrames \cup PassedFrames

AckFrames == {[t |-> "text", msg |-> m] : m \in Acks}

----------------------------------------------------------------------------
(* ReconnectingWebSocket over WebSocketClient (client/websocket.rs).       *)
(* A step is one call of the caller, one frame read inside next, or one     *)
(* turn of the retry loop of attempt_reconnect (the calls take &mut self,   *)
(* so no other call runs while next or reconnect does).  A read of next is   *)
(* taken up to the frame that makes the client return; on these             *)
(* connections the server sends data messages only.  Acknowledgments and    *)
(* the frames the client passes over are followed on the stand-alone        *)
(* client.                                                                  *)

RECURSIVE Pow(_, _)
Pow(b, k) == IF k = 0 THEN 1 ELSE b * Pow(b, k - 1)

\* a delay that is not capped at max_delay_ms
DelayUncapped(cfg, attempt) ==
    (cfg.initial_delay_ms * Pow(cfg.backoff_multiplier.num, attempt))
        \div Pow(cfg.backoff_multiplier.den, attempt)

\* delay_for_attempt: initial_delay_ms * backoff_multiplier^attempt, capped
\* at max_delay_ms, cut to whole milliseconds.  The multiplier is the
\* fraction num / den.
DelayForAttempt(cfg, attempt) ==
    LET n == cfg.initial_delay_ms * Pow(cfg.backoff_multiplier.num, attempt)
        d == Pow(cfg.backoff_multiplier.den, attempt)
    IN  IF n >= cfg.max_delay_ms * d THEN cfg.max_delay_ms ELSE n \div d

\* the configuration of test_delay_calculation, with limited retries
TestConfig ==
    [max_retries |-> MaxRetries, initial_delay_ms |-> 100,
     max_delay_ms |-> 1000, backoff_multiplier |-> [num |-> 2, den |-> 1]]

\* the configurations the retry loop is run with: limited and unlimited
\* retries, multipliers below, at and above 1
ReconnectConfigs ==
    [max_retries : {0, MaxRetries},
     initial_delay_ms : {1, 100},
     max_delay_ms : {150, 1000},
     backoff_multiplier : {[num |-> 1, den |-> 2], [num |-> 1, den |-> 1],
                           [num |-> 3, den |-> 2], [num |-> 2, den |-> 1]}]

\* the subscribe methods of the smaller specifications: one that takes
\* market tickers and one that takes none
DirectMethods == {"subscribe_orderbook", "subscribe_user_orders"}

\* the SubscriptionRequest each subscribe method of ReconnectingWebSocket
\* pushes
RequestOf(method, arg) ==
    CASE method = "subscribe_orderbook" -> [kind |-> "Orderbook", tickers |-> arg]
      [] method = "subscribe_ticker" -> [kind |-> "Ticker", tickers |-> arg]
      [] method = "subscribe_trades" -> [kind |-> "Trades", tickers |-> arg]
      [] method = "subscribe_fills" -> [kind |-> "Fills", tickers |-> arg]
      [] method = "subscribe_user_orders" -> [kind |-> "UserOrders"]
      [] method = "subscribe_market_lifecycle" ->
             [kind |-> "MarketLifecycle", tickers |-> arg]

\* the channel and the market filter a saved request stands for
Described(request) ==
    [channel |->
        CASE request.kind = "Orderbook" -> "orderbook_delta"
          [] request.kind = "Ticker" -> "ticker"
          [] request.kind = "Trades" -> "trade"
          [] request.kind = "Fills" -> "fill"
          [] request.kind = "UserOrders" -> "user_orders"
          [] request.kind = "MarketLifecycle" -> "market_lifecycle_v2",
     market_tickers |->
        CASE request.kind = "Orderbook" -> Some(request.tickers)
          [] request.kind = "UserOrders" -> None
          [] OTHER -> request.tickers]

\* a replay that sends every request without its market filter
ReplayCallDroppingFilter(request) ==
    CASE request.kind = "Orderbook" ->
             [method |-> "subscribe_orderbook", arg |-> request.tickers]
      [] request.kind = "Ticker" -> [method |-> "subscribe_ticker", arg |-> None]
      [] request.kind = "Trades" -> [method |-> "subscribe_trades", arg |-> None]
      [] request.kind = "Fills" -> [method |-> "subscribe_fills", arg |-> None]
      [] request.kind = "UserOrders" ->
             [method |-> "subscribe_user_orders", arg |-> None]
      [] request.kind = "MarketLifecycle" ->
             [method |-> "subscribe_market_lifecycle", arg |-> None]

\* replay_subscriptions, the match on one request: the method of the client
\* it calls and the argument it passes
ReplayCall(request) ==
    CASE request.kind = "Orderbook" ->
             [method |-> "subscribe_orderbook", arg |-> request.tickers]
      [] request.kind = "Ticker" ->
             [method |-> "subscribe_ticker", arg |-> request.tickers]
      [] request.kind = "Trades" ->
             [method |-> "subscribe_trades", arg |-> request.tickers]
      [] request.kind = "Fills" ->
             [method |-> "subscribe_fills", arg |-> request.tickers]
      [] request.kind = "UserOrders" ->
             [method |-> "subscribe_user_orders", arg |-> None]
      [] request.kind = "MarketLifecycle" ->
             [method |-> "subscribe_market_lifecycle", arg |-> request.tickers]

\* replay_subscriptions: the saved requests are sent in the order of the
\* vector; the first failing send (the one numbered failAt, 0 for none) ends
\* the replay with its error
RECURSIVE ReplaySubscriptions(_, _, _)
ReplaySubscriptions(requests, c, failAt) ==
    IF requests = <<>> THEN [ok |-> TRUE, client |-> c]
    ELSE LET call == ReplayCall(Head(requests))
             r == ClientSubscribe(c, call.method, call.arg, failAt # 1)
         IN  IF r.ok
             THEN ReplaySubscriptions(Tail(requests), r.client, failAt - 1)
             ELSE [ok |-> FALSE, client |-> r.client]

\* ReconnectingWebSocket::connect with the given configuration: connected,
\* nothing saved.  Beside the fields of the struct, `pc` and `caller` tell
\* where the call in progress stands, `ret` is what the last call returned
\* or the last turn of the retry loop did (with the backoff delay it slept),
\* `connects` the connect attempts of the run of the loop in progress or
\* just ended (the next call sets it back to 0), `issued` the
\* channel and market filter of each subscribe call since the last
\* clear_subscriptions, `calls` the number of subscribe calls, and `fresh`
\* holds right after attempt_reconnect attached a new client; `dropped`
\* lists the channel and market filter of each active subscription that an
\* Unsubscribed message took out of the table of a client, and `failed`
\* holds when a connect or a replay failed since reconnect_attempt was 0.
WsConnectedWith(cfg) ==
    [client |-> Some(ClientNew),
     reconnect_config |-> cfg,
     subscription_requests |-> <<>>,
     reconnect_attempt |-> 0,
     is_reconnecting |-> FALSE,
     pc |-> "idle",
     caller |-> "none",
     ret |-> NoCall,
     connects |-> 0,
     issued |-> <<>>,
     calls |-> 0,
     fresh |-> FALSE,
     dropped |-> <<>>,
     failed |-> FALSE]

WsConnected == WsConnectedWith(TestConfig)

\* what a step of the ReconnectingWebSocket leaves alone
WsFrame == UNCHANGED <<book, bcall, books, last, concVars, client, ccall>>

\* a subscribe call that sends nothing without a client and saves nothing
SubscribeOnlyWhenConnected(w, method, arg, ok) ==
    IF w.client.some
    THEN LET r == ClientSubscribe(w.client.val, method, arg, ok)
         IN  [w EXCEPT
                !.subscription_requests = Append(@, RequestOf(method, arg)),
                !.client = Some(r.client),
                !.ret = [op |-> "subscribe", result |-> r.result]]
    ELSE [w EXCEPT !.ret = [op |-> "subscribe",
                            result |-> Err("ConnectionClosed")]]

\* subscribe_orderbook .. subscribe_market_lifecycle of ReconnectingWebSocket:
\* the request is pushed, then forwarded when there is a client; without a
\* client the call returns ConnectionClosed
WsSubscribeCall(w, method, arg, ok) ==
    LET pushed == [w EXCEPT
                     !.subscription_requests = Append(@, RequestOf(method, arg))]
    IN  IF w.client.some
        THEN LET r == ClientSubscribe(w.client.val, method, arg, ok)
             IN  [pushed EXCEPT
                    !.client = Some(r.client),
                    !.ret = [op |-> "subscribe", result |-> r.result]]
        ELSE [pushed EXCEPT !.ret = [op |-> "subscribe",
                                     result |-> Err("ConnectionClosed")]]

WsSubscribe ==
    \E method \in ClientMethods, ok \in BOOLEAN :
      \E arg \in ArgsOf(method) :
        /\ ws.pc = "idle"
        /\ ws.calls < MaxLog
        /\ ws' = [WsSubscribeCall(ws, method, arg, ok) EXCEPT
                 !.issued = Append(@, [channel |-> ChannelOf(method),
                               market_tickers |-> MarketTickersOf(method, arg)]),
                 !.calls = @ + 1,
                 !.fresh = FALSE, !.connects = 0]
        /\ WsFrame

\* clear_subscriptions
WsClearSubscriptions ==
    /\ ws.pc = "idle"
    /\ ws' = [ws EXCEPT !.subscription_requests = <<>>, !.issued = <<>>,
                        !.ret = [op |-> "clear_subscriptions"],
                        !.fresh = FALSE, !.connects = 0]
    /\ WsFrame

\* an entry into attempt_reconnect that starts the count of attempts anew
EnterResettingAttempts(w, caller) ==
    [w EXCEPT !.is_reconnecting = TRUE, !.pc = "attempt_reconnect",
              !.caller = caller, !.connects = 0,
              !.reconnect_attempt = 0,
              !.ret = [op |-> caller, result |-> NotReturned],
              !.fresh = FALSE]

\* attempt_reconnect is entered from `caller`: is_reconnecting is set
EnterAttemptReconnect(w, caller) ==
    [w EXCEPT !.is_reconnecting = TRUE, !.pc = "attempt_reconnect",
              !.caller = caller, !.connects = 0,
              !.ret = [op |-> caller, result |-> NotReturned],
              !.fresh = FALSE]

\* a next that reconnects on every error of the client
WsNextReconnectingOnAnyError(w, frame) ==
    LET r == ClientNext(w.client.val, frame)
        entered == EnterAttemptReconnect([w EXCEPT !.client = None], "next")
    IN  CASE r.result.kind = "msg" ->
               [w EXCEPT !.client = Some(r.client), !.reconnect_attempt = 0,
                         !.pc = "idle", !.caller = "none",
                         !.ret = [op |-> "next", frame |-> frame.t,
                                  result |-> r.result],
                         !.fresh = FALSE, !.connects = 0]
          [] r.result.kind \in {"none", "err"} ->
               [entered EXCEPT !.ret = [op |-> "next", frame |-> frame.t,
                                        result |-> NotReturned]]
          [] r.result.kind = "pending" ->
               [w EXCEPT !.client = Some(r.client), !.pc = "receive",
                         !.caller = "next",
                         !.ret = [op |-> "next", frame |-> frame.t,
                                  result |-> NotReturned],
                         !.fresh = FALSE, !.connects = 0]

\* a next that returns ConnectionClosed to its caller like any other error
WsNextSurfacingClosed(w, frame) ==
    LET r == ClientNext(w.client.val, frame)
        entered == EnterAttemptReconnect([w EXCEPT !.client = None], "next")
    IN  CASE r.result.kind = "msg" ->
               [w EXCEPT !.client = Some(r.client), !.reconnect_attempt = 0,
                         !.pc = "idle", !.caller = "none",
                         !.ret = [op |-> "next", frame |-> frame.t,
                                  result |-> r.result],
                         !.fresh = FALSE, !.connects = 0]
          [] r.result.kind = "none" ->
               [entered EXCEPT !.ret = [op |-> "next", frame |-> frame.t,
                                        result |-> NotReturned]]
          [] r.result.kind = "err" ->
               [w EXCEPT !.client = Some(r.client),
                         !.pc = "idle", !.caller = "none",
                         !.ret = [op |-> "next", frame |-> frame.t,
                                  result |-> r.result],
                         !.fresh = FALSE, !.connects = 0]
          [] r.result.kind = "pending" ->
               [w EXCEPT !.client = Some(r.client), !.pc = "receive",
                         !.caller = "next",
                         !.ret = [op |-> "next", frame |-> frame.t,
                                  result |-> NotReturned],
                         !.fresh = FALSE, !.connects = 0]

\* a next that, on an Unsubscribed message, also takes the requests of the
\* subscription out of the saved ones
WsNextPruningLog(w, frame) ==
    LET r == ClientNext(w.client.val, frame)
        entered == EnterAttemptReconnect([w EXCEPT !.client = None], "next")
        subs == w.client.val.subscriptions
        Kept(request) ==
            ~(/\ frame.msg.sid \in DOMAIN subs
              /\ Described(request).channel = subs[frame.msg.sid].channel
              /\ Described(request).market_tickers
                    = subs[frame.msg.sid].market_tickers)
    IN  CASE r.result.kind = "msg" ->
               [w EXCEPT !.client = Some(r.client), !.reconnect_attempt = 0,
                         !.subscription_requests =
                             IF frame.msg.type = "unsubscribed"
                             THEN SelectSeq(@, Kept) ELSE @,
                         !.pc = "idle", !.caller = "none",
                         !.ret = [op |-> "next", frame |-> frame.t,
                                  result |-> r.result],
                         !.fresh = FALSE, !.connects = 0]
          [] r.result.kind = "none"
             \/ (r.result.kind = "err" /\ r.result.err = "ConnectionClosed") ->
               [entered EXCEPT !.ret = [op |-> "next", frame |-> frame.t,
                                        result |-> NotReturned]]
          [] r.result.kind = "err" /\ r.result.err # "ConnectionClosed" ->
               [w EXCEPT !.client = Some(r.client),
                         !.pc = "idle", !.caller = "none",
                         !.ret = [op |-> "next", frame |-> frame.t,
                                  result |-> r.result],
                         !.fresh = FALSE, !.connects = 0]
          [] r.result.kind = "pending" ->
               [w EXCEPT !.client = Some(r.client), !.pc = "receive",
                         !.caller = "next",
                         !.ret = [op |-> "next", frame |-> frame.t,
                                  result |-> NotReturned],
                         !.fresh = FALSE, !.connects = 0]

\* next with a client, one frame read from it: a message resets the attempt
\* count and is returned; ConnectionClosed or the end of the stream drops
\* the client and enters attempt_reconnect; another error is returned; after
\* a frame the client passes over it reads on
WsNextOnClient(w, frame) ==
    LET r == ClientNext(w.client.val, frame)
        entered == EnterAttemptReconnect([w EXCEPT !.client = None], "next")
    IN  CASE r.result.kind = "msg" ->
               [w EXCEPT !.client = Some(r.client), !.reconnect_attempt = 0,
                         !.failed = FALSE,
                         !.pc = "idle", !.caller = "none",
                         !.ret = [op |-> "next", frame |-> frame.t,
                                  result |-> r.result],
                         !.fresh = FALSE, !.connects = 0]
          [] r.result.kind = "none"
             \/ (r.result.kind = "err" /\ r.result.err = "ConnectionClosed") ->
               [entered EXCEPT !.ret = [op |-> "next", frame |-> frame.t,
                                        result |-> NotReturned]]
          [] r.result.kind = "err" /\ r.result.err # "ConnectionClosed" ->
               [w EXCEPT !.client = Some(r.client),
                         !.pc = "idle", !.caller = "none",
                         !.ret = [op |-> "next", frame |-> frame.t,
                                  result |-> r.result],
                         !.fresh = FALSE, !.connects = 0]
          [] r.result.kind = "pending" ->
               [w EXCEPT !.client = Some(r.client), !.pc = "receive",
                         !.caller = "next",
                         !.ret = [op |-> "next", frame |-> frame.t,
                                  result |-> NotReturned],
                         !.fresh = FALSE, !.connects = 0]

\* next is called, or goes on reading after a reconnection; without a client
\* it enters attempt_reconnect (`after` keeps the call made before it)
WsNext ==
    /\ ws.pc \in {"idle", "receive"}
    /\ \/ /\ ws.client.some
          /\ \E frame \in ReturningFrames : ws' = WsNextOnClient(ws, frame)
       \/ /\ ~ws.client.some
          /\ ws' = [EnterAttemptReconnect(ws, "next") EXCEPT
                       !.ret = [op |-> "next", frame |-> "no client",
                                result |-> NotReturned,
                                after |-> ws.ret.op]]
    /\ WsFrame

\* the acknowledgments read through the ReconnectingWebSocket: those of the
\* first command of a connection and of the first sid
WsAcks ==
    {[type |-> "subscribed", id |-> Some(1), sid |-> 1],
     [type |-> "unsubscribed", sid |-> 1]}

\* the active subscription the message takes out of the table of client c,
\* added to those listed in d
DroppedBy(d, c, msg) ==
    IF msg.type = "unsubscribed" /\ msg.sid \in DOMAIN c.subscriptions
    THEN LET info == [channel |-> c.subscriptions[msg.sid].channel,
                      market_tickers |->
                          c.subscriptions[msg.sid].market_tickers]
         IN  IF \E i \in 1..Len(d) : d[i] = info THEN d ELSE Append(d, info)
    ELSE d

\* next reads an acknowledgment from the client
WsNextAck ==
    /\ ws.pc \in {"idle", "receive"}
    /\ ws.client.some
    /\ \E msg \in WsAcks :
          ws' = [WsNextOnClient(ws, [t |-> "text", msg |-> msg]) EXCEPT
                    !.dropped = DroppedBy(@, ws.client.val, msg)]
    /\ WsFrame

\* reconnect: the client is closed and dropped, the attempt count reset and
\* attempt_reconnect entered
WsReconnect ==
    /\ ws.pc = "idle"
    /\ ws' = EnterAttemptReconnect(
                 [ws EXCEPT !.client = None, !.reconnect_attempt = 0,
                            !.failed = FALSE],
                 "reconnect")
    /\ WsFrame

\* a close that also forgets the saved requests
WsCloseForgetting ==
    /\ ws.pc = "idle"
    /\ \E ok \in BOOLEAN :
         ws' = IF ws.client.some /\ ~ClientClose(ws.client.val, ok).ok
               THEN [ws EXCEPT !.ret = [op |-> "close",
                                        result |-> Err("WebSocket")],
                               !.fresh = FALSE, !.connects = 0]
               ELSE [ws EXCEPT !.client = None,
                               !.subscription_requests = <<>>,
                               !.ret = [op |-> "close", result |-> OkUnit],
                               !.fresh = FALSE, !.connects = 0]
    /\ WsFrame

\* close: the client is closed and dropped; when closing it fails the error
\* is returned and the client stays
WsClose ==
    /\ ws.pc = "idle"
    /\ \E ok \in BOOLEAN :
         ws' = IF ws.client.some /\ ~ClientClose(ws.client.val, ok).ok
               THEN [ws EXCEPT !.ret = [op |-> "close",
                                        result |-> Err("WebSocket")],
                               !.fresh = FALSE, !.connects = 0]
               ELSE [ws EXCEPT !.client = None,
                               !.ret = [op |-> "close", result |-> OkUnit],
                               !.fresh = FALSE, !.connects = 0]
    /\ WsFrame

\* a loop that gives up one attempt later
RetriesExhaustedLate(w) ==
    /\ w.reconnect_config.max_retries > 0
    /\ w.reconnect_attempt > w.reconnect_config.max_retries

\* attempt_reconnect, the test at the head of the loop
RetriesExhausted(w) ==
    /\ w.reconnect_config.max_retries > 0
    /\ w.reconnect_attempt >= w.reconnect_config.max_retries

\* a reconnection that attaches the new client whatever the replay did
AttachAfterAnyReplay(w, connected, failAt) ==
    LET r == ReplaySubscriptions(w.subscription_requests, ClientNew, failAt)
        turn == [w EXCEPT
                   !.reconnect_attempt = @ + 1,
                   !.connects = @ + 1,
                   !.ret = [op |-> "attempt", connected |-> connected,
                            failAt |-> failAt,
                            slept |-> DelayForAttempt(w.reconnect_config,
                                                      w.reconnect_attempt)],
                   !.fresh = FALSE]
    IN  IF connected
        THEN IF w.caller = "reconnect"
             THEN [turn EXCEPT !.client = Some(r.client),
                               !.is_reconnecting = FALSE, !.fresh = TRUE,
                               !.pc = "idle", !.caller = "none",
                               !.ret = [op |-> "reconnect", result |-> OkUnit]]
             ELSE [turn EXCEPT !.client = Some(r.client),
                               !.is_reconnecting = FALSE, !.fresh = TRUE,
                               !.pc = "receive"]
        ELSE turn

\* a reconnection that starts the count of attempts anew when it attaches
\* the new client
AttachResettingAttempts(w, connected, failAt) ==
    LET r == ReplaySubscriptions(w.subscription_requests, ClientNew, failAt)
        turn == [w EXCEPT
                   !.reconnect_attempt = @ + 1,
                   !.connects = @ + 1,
                   !.failed = @ \/ ~(connected /\ r.ok),
                   !.ret = [op |-> "attempt", connected |-> connected,
                            failAt |-> failAt,
                            slept |-> DelayForAttempt(w.reconnect_config,
                                                      w.reconnect_attempt)],
                   !.fresh = FALSE]
    IN  IF connected /\ r.ok
        THEN IF w.caller = "reconnect"
             THEN [turn EXCEPT !.client = Some(r.client),
                               !.is_reconnecting = FALSE, !.fresh = TRUE,
                               !.reconnect_attempt = 0,
                               !.pc = "idle", !.caller = "none",
                               !.ret = [op |-> "reconnect", result |-> OkUnit]]
             ELSE [turn EXCEPT !.client = Some(r.client),
                               !.is_reconnecting = FALSE, !.fresh = TRUE,
                               !.reconnect_attempt = 0,
                               !.pc = "receive"]
        ELSE turn

\* attempt_reconnect, one turn of the loop with retries left: the backoff
\* delay of the current attempt count is slept, the attempt counted, and a
\* connection opened.  Opening it fails (connected = FALSE), or the replay
\* on it fails at the send numbered failAt and the connection is dropped,
\* or the replay succeeds and the connection becomes the client.
AttemptTurn(w, connected, failAt) ==
    LET r == ReplaySubscriptions(w.subscription_requests, ClientNew, failAt)
        turn == [w EXCEPT
                   !.reconnect_attempt = @ + 1,
                   !.connects = @ + 1,
                   !.failed = @ \/ ~(connected /\ r.ok),
                   !.ret = [op |-> "attempt", connected |-> connected,
                            failAt |-> failAt,
                            slept |-> DelayForAttempt(w.reconnect_config,
                                                      w.reconnect_attempt)],
                   !.fresh = FALSE]
    IN  IF connected /\ r.ok
        THEN IF w.caller = "reconnect"
             THEN [turn EXCEPT !.client = Some(r.client),
                               !.is_reconnecting = FALSE, !.fresh = TRUE,
                               !.pc = "idle", !.caller = "none",
                               !.ret = [op |-> "reconnect", result |-> OkUnit]]
             ELSE [turn EXCEPT !.client = Some(r.client),
                               !.is_reconnecting = FALSE, !.fresh = TRUE,
                               !.pc = "receive"]
        ELSE turn

\* one turn of the loop of attempt_reconnect: out of retries, it returns
\* ConnectionClosed to its caller; else it makes an attempt
WsAttempt ==
    /\ ws.pc = "attempt_reconnect"
    /\ IF RetriesExhausted(ws)
       THEN ws' = [ws EXCEPT !.is_reconnecting = FALSE, !.pc = "idle",
                             !.caller = "none",
                             !.ret = [op |-> ws.caller,
                                      result |-> Err("ConnectionClosed")]]
       ELSE /\ ws.reconnect_attempt < MaxAttempts
            /\ \E connected \in BOOLEAN :
                 \E failAt \in IF connected
                               THEN 0 .. Len(ws.subscription_requests)
                               ELSE {0} :
                   ws' = AttemptTurn(ws, connected, failAt)
    /\ WsFrame

NextWs ==
    \/ WsSubscribe
    \/ WsClearSubscriptions
    \/ WsNext
    \/ WsReconnect
    \/ WsClose
    \/ WsAttempt

\* a subscribe call of one of the two methods of DirectMethods
WsSubscribeDirect ==
    \E method \in DirectMethods, ok \in BOOLEAN :
      \E arg \in ArgsOf(method) :
        /\ ws.pc = "idle"
        /\ ws.calls < MaxLog
        /\ ws' = [WsSubscribeCall(ws, method, arg, ok) EXCEPT
                 !.issued = Append(@, [channel |-> ChannelOf(method),
                               market_tickers |-> MarketTickersOf(method, arg)]),
                 !.calls = @ + 1,
                 !.fresh = FALSE, !.connects = 0]
        /\ WsFrame

\* subscriptions, acknowledgments and reconnections
NextAck ==
    \/ WsSubscribeDirect
    \/ WsClearSubscriptions
    \/ WsNext
    \/ WsNextAck
    \/ WsReconnect
    \/ WsClose
    \/ WsAttempt

\* the retry loop alone, under each configuration
NextRetry ==
    \/ WsNext
    \/ WsReconnect
    \/ WsClose
    \/ WsAttempt

----------------------------------------------------------------------------
(* A stand-alone WebSocketClient: one step per call, or per frame read by   *)
(* next.  ccall keeps the last call, its arguments and what it returned.    *)

\* what a step of the stand-alone client leaves alone
ClientFrame == UNCHANGED <<book, bcall, books, last, concVars, ws>>

CSubscribe ==
    \E method \in DirectMethods, ok \in BOOLEAN :
      \E arg \in ArgsOf(method) :
        LET r == ClientSubscribe(client, method, arg, ok)
        IN  /\ ccall.op # "reading"
            /\ client.message_id <= MaxCmd
            /\ client' = r.client
            /\ ccall' = [op |-> "subscribe", result |-> r.result]
            /\ ClientFrame

CUnsubscribe ==
    \E sids \in {<<1>>}, ok \in BOOLEAN :
        LET r == ClientUnsubscribe(client, sids, ok)
        IN  /\ ccall.op # "reading"
            /\ client.message_id <= MaxCmd
            /\ client' = r.client
            /\ ccall' = [op |-> "unsubscribe", result |-> r.result]
            /\ ClientFrame

CUpdateSubscription ==
    \E sid \in {1}, add \in {Some(<<"A">>)}, remove \in {None},
       ok \in BOOLEAN :
        LET r == ClientUpdateSubscription(client, sid, add, remove, ok)
        IN  /\ ccall.op # "reading"
            /\ client.message_id <= MaxCmd
            /\ client' = r.client
            /\ ccall' = [op |-> "update_subscription", result |-> r.result]
            /\ ClientFrame

CListSubscriptions ==
    \E ok \in BOOLEAN :
        LET r == ClientListSubscriptions(client, ok)
        IN  /\ ccall.op # "reading"
            /\ client.message_id <= MaxCmd
            /\ client' = r.client
            /\ ccall' = [op |-> "list_subscriptions", result |-> r.result]
            /\ ClientFrame

CClose ==
    \E ok \in BOOLEAN :
        LET r == ClientClose(client, ok)
        IN  /\ ccall.op # "reading"
            /\ client' = r.client
            /\ ccall' = [op |-> "close", result |-> r.result]
            /\ ClientFrame

\* next: frames are read until one makes the call return; while the call
\* reads on, no other call is made
CNext ==
    \E frame \in PlainFrames \cup AckFrames :
        LET r == ClientNext(client, frame)
        IN  /\ client' = r.client
            /\ ccall' = IF r.result.kind = "pending"
                        THEN [op |-> "reading"]
                        ELSE [op |-> "next", result |-> r.result]
            /\ ClientFrame

NextClient ==
    \/ CSubscribe
    \/ CUnsubscribe
    \/ CUpdateSubscription
    \/ CListSubscriptions
    \/ CClose
    \/ CNext

Init ==
    /\ book = OrderbookNew
    /\ bcall = NoCall
    /\ books = EmptyMap
    /\ last = NoCall
    /\ ConcIdle
    /\ ws = WsConnected
    /\ client = ClientNew
    /\ ccall = NoCall

NextBook ==
    \/ CallSnapshot
    \/ CallDeltaMsg
    \/ CallApplyDelta
    \/ CallSetLevel
    \/ CallClear

SpecBook == Init /\ [][NextBook]_vars

SpecConc == Init /\ [][NextConc]_vars

SpecWs == Init /\ [][NextWs]_vars

SpecClient == Init /\ [][NextClient]_vars

SpecAck == Init /\ [][NextAck]_vars

SpecPar == Init /\ [][NextPar]_vars

\* the retry loop under each configuration, nothing saved for replay
InitRetry ==
    /\ book = OrderbookNew
    /\ bcall = NoCall
    /\ books = EmptyMap
    /\ last = NoCall
    /\ ConcIdle
    /\ ws \in {WsConnectedWith(cfg) : cfg \in ReconnectConfigs}
    /\ client = ClientNew
    /\ ccall = NoCall

SpecRetry == InitRetry /\ [][NextRetry]_vars

\* the loop of attempt_reconnect is not suspended forever: each sleep ends
\* and each connect returns
SpecRetryFair == SpecRetry /\ WF_vars(WsAttempt)

----------------------------------------------------------------------------
(* One apply_snapshot call on a book that holds levels already: the book    *)
(* and the arguments are drawn at the start, the step is the call.          *)

PriorBooks ==
    {OrderbookNew,
     [yes_bids |-> MapInsert(EmptyMap, 40, 1),
      yes_asks |-> MapInsert(EmptyMap, 60, 2), sequence |-> 1],
     [yes_bids |-> MapInsert(MapInsert(EmptyMap, 40, 2), 60, 1),
      yes_asks |-> MapInsert(EmptyMap, 40, 1), sequence |-> 2]}

InitSnapshot ==
    /\ book \in PriorBooks
    /\ bcall \in {[op |-> "snapshot_args", yes |-> pl[1], no |-> pl[2],
                   sequence |-> s] : pl \in SnapshotPayloads, s \in Seqs}
    /\ books = EmptyMap
    /\ last = NoCall
    /\ ConcIdle
    /\ ws = WsConnected
    /\ client = ClientNew
    /\ ccall = NoCall

SnapshotCall ==
    /\ bcall.op = "snapshot_args"
    /\ book' = BookApplySnapshot(book, bcall.yes, bcall.no, bcall.sequence)
    /\ bcall' = [op |-> "apply_snapshot", yes |-> bcall.yes, no |-> bcall.no,
                 sequence |-> bcall.sequence, pre |-> book]
    /\ UNCHANGED <<books, last, concVars, netVars>>

SpecSnapshot == InitSnapshot /\ [][SnapshotCall]_vars

----------------------------------------------------------------------------
(* One apply_delta_msg call on a book that holds levels already: the book   *)
(* and the arguments are drawn at the start, the step is the call.          *)

\* prices of the delta: two that 100 - p exchanges and the one it keeps
DeltaPrices == BookPrices \cup {50}

InitDelta ==
    /\ book \in PriorBooks
    /\ bcall \in {[op |-> "delta_args", side |-> sd, price |-> p, delta |-> d,
                   sequence |-> s] :
                     sd \in Sides, p \in DeltaPrices, d \in Deltas,
                     s \in DeltaSeqs}
    /\ books = EmptyMap
    /\ last = NoCall
    /\ ConcIdle
    /\ ws = WsConnected
    /\ client = ClientNew
    /\ ccall = NoCall

DeltaCall ==
    /\ bcall.op = "delta_args"
    /\ LET r == BookApplyDeltaMsg(book, bcall.side, bcall.price, bcall.delta,
                                  bcall.sequence)
       IN  /\ book' = r.book
           /\ bcall' = [op |-> "apply_delta_msg", side |-> bcall.side,
                        price |-> bcall.price, delta |-> bcall.delta,
                        sequence |-> bcall.sequence, ok |-> r.ok,
                        before |-> book]
    /\ UNCHANGED <<books, last, concVars, netVars>>

SpecDelta == InitDelta /\ [][DeltaCall]_vars

----------------------------------------------------------------------------
(* set_level calls on a new book, at the prices and quantities of the       *)
(* set_level tests of book.rs; bcall keeps the whole sequence of calls.     *)

\* longest sequence of set_level calls
MaxSets == 2

ScenarioPrices == {45, 55}
ScenarioQuantities == {0, 75, 100}

RECURSIVE CallDepth(_)
CallDepth(c) == IF c.op = "none" THEN 0 ELSE 1 + CallDepth(c.before)

SetCall ==
    \E side \in Sides, p \in ScenarioPrices, q \in ScenarioQuantities :
        /\ CallDepth(bcall) < MaxSets
        /\ book' = BookSetLevel(book, p, q, side)
        /\ bcall' = [op |-> "set_level", side |-> side, price |-> p,
                     quantity |-> q, before |-> bcall]
        /\ UNCHANGED <<books, last, concVars, netVars>>

SpecSet == Init /\ [][SetCall]_vars

----------------------------------------------------------------------------
Next ==
    \/ AddMarket
    \/ RemoveMarket
    \/ SetSubscriptionId
    \/ GetState
    \/ MarkNeedsResync
    \/ Clear
    \/ SnapshotEvent
    \/ DeltaEvent
    \/ OtherEvent

Spec == Init /\ [][Next]_vars

----------------------------------------------------------------------------
(* Claims *)

\* the quantity of the last level of `levels` at `price` with quantity > 0,
\* 0 when there is none
LastPositive(levels, price) ==
    LET I == {i \in 1..Len(levels) : levels[i][1] = price /\ levels[i][2] > 0}
    IN IF I = {} THEN 0 ELSE levels[SetMax(I)][2]

PositivePrices(levels) ==
    {levels[i][1] : i \in {j \in 1..Len(levels) : levels[j][2] > 0}}

\* C1: with last_sequence = N >= 1, apply_delta_msg accepts a delta with
\* sequence N + 1 (returns true, last_sequence becomes N + 1) and rejects one
\* with sequence N + 2 or N (returns false, last_sequence stays N).
C1_GapDetection ==
    (bcall.op = "apply_delta_msg" /\ bcall.pre >= 1) =>
        /\ bcall.sequence = bcall.pre + 1 =>
              bcall.ok /\ book.sequence = bcall.pre + 1
        /\ bcall.sequence \in {bcall.pre + 2, bcall.pre} =>
              ~bcall.ok /\ book.sequence = bcall.pre

\* a delta two past last_sequence = 1 was rejected on a book that holds a level
C1_Witness ==
    /\ bcall.op = "apply_delta_msg"
    /\ bcall.pre = 1
    /\ bcall.sequence = 3
    /\ ~bcall.ok
    /\ book.sequence = 1
    /\ DOMAIN book.yes_bids # {}

\* C5 as amended: after apply_snapshot the bid side holds one level for each
\* price that has a yes level with quantity > 0, with the quantity of the last
\* such level of the list; the ask side holds one level at 100 - P for each
\* price P that has a no level with quantity > 0, with the quantity of the
\* last such level; nothing else is in the book (no earlier level survives),
\* and last_sequence is the snapshot's sequence.
C5_SnapshotReplacesBook ==
    bcall.op = "apply_snapshot" =>
        /\ book.sequence = bcall.sequence
        /\ DOMAIN book.yes_bids = PositivePrices(bcall.yes)
        /\ \A p \in DOMAIN book.yes_bids :
               book.yes_bids[p] = LastPositive(bcall.yes, p)
        /\ DOMAIN book.yes_asks = {100 - p : p \in PositivePrices(bcall.no)}
        /\ \A p \in DOMAIN book.yes_asks :
               book.yes_asks[p] = LastPositive(bcall.no, 100 - p)

\* a snapshot was applied to a book whose bid at 60 and ask at 40 are not in
\* it, its yes list naming price 40 twice and its no list one level
C5_Witness ==
    /\ bcall.op = "apply_snapshot"
    /\ 60 \in DOMAIN bcall.pre.yes_bids
    /\ 40 \in DOMAIN bcall.pre.yes_asks
    /\ bcall.yes = <<<<40, 2>>, <<40, 0>>>>
    /\ bcall.no = <<>>
    /\ bcall.sequence # bcall.pre.sequence
    /\ DOMAIN book.yes_bids = {40}
    /\ book.yes_bids[40] = 2
    /\ DOMAIN book.yes_asks = {}

\* C5 as stated: every yes level [P,q] with q > 0 is a bid level, every no
\* level [P,q] with q > 0 is the ask level at 100 - P, the book holds no other
\* level, and last_sequence is the snapshot's sequence.
C5_EveryLevelStored ==
    bcall.op = "apply_snapshot" =>
        /\ book.sequence = bcall.sequence
        /\ \A i \in 1..Len(bcall.yes) :
               bcall.yes[i][2] > 0 =>
                   /\ bcall.yes[i][1] \in DOMAIN book.yes_bids
                   /\ book.yes_bids[bcall.yes[i][1]] = bcall.yes[i][2]
        /\ \A p \in DOMAIN book.yes_bids :
               \E i \in 1..Len(bcall.yes) :
                   bcall.yes[i] = <<p, book.yes_bids[p]>> /\ bcall.yes[i][2] > 0
        /\ \A i \in 1..Len(bcall.no) :
               bcall.no[i][2] > 0 =>
                   /\ (100 - bcall.no[i][1]) \in DOMAIN book.yes_asks
                   /\ book.yes_asks[100 - bcall.no[i][1]] = bcall.no[i][2]
        /\ \A p \in DOMAIN book.yes_asks :
               \E i \in 1..Len(bcall.no) :
                   bcall.no[i] = <<100 - p, book.yes_asks[p]>>
                   /\ bcall.no[i][2] > 0

Entry(m) == books[m]

\* the step is a delta event for market m
DeltaStep(m) == last'.op = "delta" /\ last'.market = m

\* C2: for a Synchronized market with last_sequence = N >= 1, a delta whose
\* sequence is not N + 1 makes apply_delta return SequenceGap with expected =
\* N + 1 and got = the delta's sequence and changes nothing but the market's
\* state, which becomes NeedsResync; and every step that returns SequenceGap
\* is such a step: the market was Synchronized, expected is its last_sequence
\* + 1, its state becomes NeedsResync, its book and last_sequence stay.
C2_GapMarksNeedsResync ==
    /\ [](\A m \in DOMAIN books, side \in Sides, p \in EventPrices,
             d \in EventDeltas, s \in DeltaSeqs :
            (/\ books[m].state = "Synchronized"
             /\ books[m].book.sequence >= 1
             /\ s # books[m].book.sequence + 1) =>
                LET r == ManagerApplyDelta(books, m, side, p, d, s)
                IN /\ r.res = ErrSequenceGap(books[m].book.sequence + 1, s)
                   /\ r.books = [books EXCEPT ![m].state = "NeedsResync"])
    /\ [][\A m \in Markets :
            (DeltaStep(m) /\ last'.res.kind = "sequence_gap") =>
                /\ m \in DOMAIN books
                /\ books[m].state = "Synchronized"
                /\ last'.res.expected = books[m].book.sequence + 1
                /\ last'.res.got # last'.res.expected
                /\ m \in DOMAIN books'
                /\ books'[m].state = "NeedsResync"
                /\ books'[m].book = books[m].book
                /\ books'[m].subscription_id = books[m].subscription_id]_vars

\* a delta with sequence 3 met last_sequence 1: SequenceGap(2, 3), the market
\* is NeedsResync and still holds its level at sequence 1
C2_Witness ==
    /\ last.op = "delta"
    /\ last.res = ErrSequenceGap(2, 3)
    /\ last.market \in DOMAIN books
    /\ Entry(last.market).state = "NeedsResync"
    /\ Entry(last.market).book.sequence = 1
    /\ DOMAIN Entry(last.market).book.yes_bids # {}

\* the step applies a delta to the book of market m: the market is
\* Synchronized and the call returns without a gap
AppliedDeltaStep(m) ==
    /\ DeltaStep(m)
    /\ m \in DOMAIN books
    /\ books[m].state = "Synchronized"
    /\ last'.res.kind = "ok"

C4_SnapshotSynchronizes ==
    /\ [](last.op = "snapshot" =>
            /\ last.res = OkSome(last.market)
            /\ last.market \in DOMAIN books
            /\ Entry(last.market).state = "Synchronized"
            /\ Entry(last.market).subscription_id = Some(last.sid)
            /\ Entry(last.market).book.sequence = last.sequence)
    /\ [][\A m \in Markets :
            (last'.op = "snapshot" /\ last'.market = m) =>
                \/ m \notin DOMAIN books
                \/ books[m].state \in {"WaitingForSnapshot", "Synchronized",
                                       "NeedsResync"}]_vars

\* a snapshot with sid 2 and sequence 0 left its market Synchronized while
\* the other market is not registered
C4_Witness ==
    /\ last.op = "snapshot"
    /\ last.sid = 2
    /\ last.sequence = 0
    /\ DOMAIN books = {last.market}
    /\ Entry(last.market).state = "Synchronized"
    /\ Entry(last.market).subscription_id = Some(2)

\* C6: a snapshot event that repeats the one just applied (same market,
\* levels, sequence and sid) changes nothing: book levels, last_sequence,
\* state and subscription id stay as the first application left them.
C6_SnapshotIdempotent ==
    [][(last'.op = "snapshot" /\ last'.again) => books' = books]_vars

\* the same snapshot, one that fills both sides, was applied twice in a row
C6_Witness ==
    /\ last.op = "snapshot"
    /\ last.again
    /\ DOMAIN Entry(last.market).book.yes_bids # {}
    /\ DOMAIN Entry(last.market).book.yes_asks # {}

\* C7: a delta event for a registered market that is not Synchronized leaves
\* the market's entry (book levels, last_sequence, state, subscription id) as
\* it was and returns no error.
C7_DeltaDroppedUnlessSynchronized ==
    [][\A m \in Markets :
        (DeltaStep(m) /\ m \in DOMAIN books
                      /\ books[m].state # "Synchronized") =>
            /\ m \in DOMAIN books'
            /\ books'[m] = books[m]
            /\ last'.res.kind = "ok"]_vars

\* a delta event returned without error for a market that is NeedsResync and
\* holds a level
C7_Witness ==
    /\ last.op = "delta"
    /\ last.res.kind = "ok"
    /\ last.market \in DOMAIN books
    /\ Entry(last.market).state = "NeedsResync"
    /\ DOMAIN Entry(last.market).book.yes_bids # {}

\* C8: a delta event for a market that is unknown or not Synchronized returns
\* Ok(None) ("not applied"), and Ok(Some(ticker)) ("applied") is returned only
\* when the delta changed the market's synchronizer.
C8_NotAppliedReported ==
    [][\A m \in Markets :
        DeltaStep(m) =>
            /\ (m \notin DOMAIN books \/ books[m].state # "Synchronized") =>
                  last'.res = OkNone
            /\ last'.res = OkSome(m) =>
                  (m \in DOMAIN books /\ books'[m].book # books[m].book)]_vars

\* C9: an entry that add_market creates is WaitingForSnapshot, and a market's
\* state becomes Synchronized only in a step that is a snapshot event for
\* that market.
C9_SynchronizedOnlyBySnapshot ==
    [][\A m \in Markets :
        /\ (/\ m \in DOMAIN books'
            /\ books'[m].state = "Synchronized"
            /\ ~(m \in DOMAIN books /\ books[m].state = "Synchronized")) =>
                (last'.op = "snapshot" /\ last'.market = m)
        /\ (/\ m \notin DOMAIN books
            /\ m \in DOMAIN books'
            /\ last'.op # "snapshot") =>
                (/\ last'.op = "add_market"
                 /\ books'[m].state = "WaitingForSnapshot")]_vars

\* a snapshot event made its market Synchronized while the other market,
\* registered too, is still WaitingForSnapshot
C9_Witness ==
    /\ last.op = "snapshot"
    /\ DOMAIN books = Markets
    /\ Entry(last.market).state = "Synchronized"
    /\ \E b \in Markets \ {last.market} :
           Entry(b).state = "WaitingForSnapshot"

\* C10: a step that returns SequenceGap for market A leaves every other
\* market as it was (registered or not, state, book, last_sequence,
\* subscription id); and whatever state the other markets are in, a
\* Synchronized market B still has its next delta applied.
C10_GapIsolated ==
    /\ [][\A a \in Markets :
            (DeltaStep(a) /\ last'.res.kind = "sequence_gap") =>
                \A b \in Markets \ {a} :
                    /\ (b \in DOMAIN books') = (b \in DOMAIN books)
                    /\ b \in DOMAIN books => books'[b] = books[b]]_vars
    /\ [](\A a \in DOMAIN books : \A b \in DOMAIN books \ {a} :
            (/\ books[a].state = "NeedsResync"
             /\ books[b].state = "Synchronized"
             /\ books[b].book.sequence < MaxSeq) =>
                \A side \in Sides, p \in EventPrices, d \in EventDeltas :
                    LET s == books[b].book.sequence + 1
                        r == ManagerApplyDelta(books, b, side, p, d, s)
                    IN /\ r.res = OkBool(TRUE)
                       /\ r.books[b].book.sequence = s
                       /\ r.books[b].state = "Synchronized"
                       /\ r.books[a] = books[a])

\* a gap was reported on one market while the other one is Synchronized and
\* holds a level
C10_Witness ==
    /\ last.op = "delta"
    /\ last.res.kind = "sequence_gap"
    /\ DOMAIN books = Markets
    /\ Entry(last.market).state = "NeedsResync"
    /\ \E b \in Markets \ {last.market} :
           /\ Entry(b).state = "Synchronized"
           /\ DOMAIN Entry(b).book.yes_bids # {}
           /\ Entry(b).book.sequence = 1

\* C12: add_market on an absent market creates its entry WaitingForSnapshot
\* with an empty book, last_sequence 0 and no subscription id and leaves the
\* other entries alone; on a registered market, whatever its state and book,
\* it changes nothing; so a second add_market of the same market changes
\* nothing.
C12_RegisterIdempotent ==
    /\ [](\A m \in Markets :
            LET once == ManagerAddMarket(books, m)
            IN /\ m \in DOMAIN books => once = books
               /\ m \notin DOMAIN books =>
                     /\ DOMAIN once = DOMAIN books \cup {m}
                     /\ once[m].state = "WaitingForSnapshot"
                     /\ once[m].book.yes_bids = EmptyMap
                     /\ once[m].book.yes_asks = EmptyMap
                     /\ once[m].book.sequence = 0
                     /\ once[m].subscription_id = None
                     /\ \A k \in DOMAIN books : once[k] = books[k]
               /\ ManagerAddMarket(once, m) = once)
    /\ [][last'.op = "add_market" =>
            \/ books' = books
            \/ \E m \in Markets \ DOMAIN books :
                   /\ DOMAIN books' = DOMAIN books \cup {m}
                   /\ books'[m] = NewEntry
                   /\ \A k \in DOMAIN books : books'[k] = books[k]]_vars

\* add_market was called with both markets registered and Synchronized, one
\* of them holding a level: the call was made on a registered market
C12_Witness ==
    /\ last.op = "add_market"
    /\ DOMAIN books = Markets
    /\ \A m \in Markets : Entry(m).state = "Synchronized"
    /\ \E m \in Markets : DOMAIN Entry(m).book.yes_bids # {}

\* C13: whatever set_level (with a quantity >= 0), apply_delta,
\* apply_snapshot and apply_delta_msg calls were made, every level stored on
\* either side holds a quantity > 0.
C13_StoredQuantitiesPositive ==
    /\ \A p \in DOMAIN book.yes_bids : book.yes_bids[p] > 0
    /\ \A p \in DOMAIN book.yes_asks : book.yes_asks[p] > 0

\* apply_delta took more than a level held: the level is gone, and the side
\* still holds another level
C13_Witness ==
    /\ bcall.op = "apply_delta"
    /\ bcall.q = 1
    /\ bcall.delta = 0 - 2
    /\ bcall.price \notin DOMAIN SideMap(book, bcall.side)
    /\ DOMAIN SideMap(book, bcall.side) # {}

\* the levels of nb other than the one at (side, price) are those of b
OtherLevelsKept(b, nb, side, price) ==
    /\ \A s \in Sides :
           /\ DOMAIN SideMap(nb, s) \ (IF s = side THEN {price} ELSE {})
                = DOMAIN SideMap(b, s) \ (IF s = side THEN {price} ELSE {})
           /\ \A p \in DOMAIN SideMap(b, s) :
                  (s # side \/ p # price) => SideMap(nb, s)[p] = SideMap(b, s)[p]
    /\ nb.sequence = b.sequence

\* C14: apply_delta(price, delta, side) on a level holding q (0 when absent):
\* delta = 0 changes nothing; delta > 0 leaves the level holding q + delta;
\* delta < 0 leaves it holding q + delta when that is > 0 and absent
\* otherwise (also when it was absent before); every other level of both
\* sides stays as it was.
C14_AdjustLevel ==
    /\ [](bcall.op = "apply_delta" =>
            LET m == SideMap(book, bcall.side)
                r == bcall.q + bcall.delta
            IN /\ bcall.q >= 0
               /\ bcall.delta >= 0 => MapGetOr(m, bcall.price, 0) = r
               /\ bcall.delta < 0 =>
                     IF r > 0 THEN MapGetOr(m, bcall.price, 0) = r
                              ELSE bcall.price \notin DOMAIN m
               /\ (bcall.delta <= 0 /\ bcall.q = 0) => bcall.price \notin DOMAIN m)
    /\ [][bcall'.op = "apply_delta" =>
            /\ bcall'.q = MapGetOr(SideMap(book, bcall'.side), bcall'.price, 0)
            /\ OtherLevelsKept(book, book', bcall'.side, bcall'.price)
            /\ bcall'.delta = 0 => book' = book]_vars

\* apply_delta with delta -1 left a level that held 2 holding 1, next to
\* another level of the same side and a level of the other side
C14_Witness ==
    /\ bcall.op = "apply_delta"
    /\ bcall.q = 2
    /\ bcall.delta = 0 - 1
    /\ bcall.price \in DOMAIN SideMap(book, bcall.side)
    /\ SideMap(book, bcall.side)[bcall.price] = 1
    /\ Cardinality(DOMAIN SideMap(book, bcall.side)) = 2
    /\ DOMAIN book.yes_bids # {}
    /\ DOMAIN book.yes_asks # {}

\* C16: spread() is None exactly when a side is empty; otherwise it is best
\* ask price - best bid price when that is >= 0, and 0 when the best bid
\* price exceeds the best ask price; it is never negative.
C16_SpreadNeverNegative ==
    LET bid == BestBid(book)
        ask == BestAsk(book)
    IN /\ Spread(book) = None <=>
              (DOMAIN book.yes_bids = {} \/ DOMAIN book.yes_asks = {})
       /\ (bid.some /\ ask.some) =>
              /\ Spread(book).val >= 0
              /\ ask.val[1] >= bid.val[1] =>
                     Spread(book).val = ask.val[1] - bid.val[1]
              /\ bid.val[1] > ask.val[1] => Spread(book).val = 0

\* C17: is_crossed() is true exactly when both sides hold a level and the
\* best bid price >= the best ask price (so best bid < best ask when both
\* exist and it is false, and it is false when a side is empty); and a
\* crossed book is not corrected: set_level and apply_delta on a crossed book
\* touch the level they name and no other, set_level leaves that level as
\* the call says, and apply_delta_msg touches at most the level it names.
C17_CrossedReportedNotCorrected ==
    /\ [](/\ IsCrossed(book) <=>
                /\ DOMAIN book.yes_bids # {}
                /\ DOMAIN book.yes_asks # {}
                /\ SetMax(DOMAIN book.yes_bids) >= SetMin(DOMAIN book.yes_asks)
          /\ (BestBid(book).some /\ BestAsk(book).some /\ ~IsCrossed(book)) =>
                BestBid(book).val[1] < BestAsk(book).val[1]
          /\ IsCrossed(book) =>
                \A side \in Sides, p \in BookPrices, d \in Deltas,
                   s \in DeltaSeqs :
                    LET r == BookApplyDeltaMsg(book, side, p, d, s)
                        k == IF side = "yes" THEN p ELSE 100 - p
                    IN IF r.ok
                          THEN OtherLevelsKept(book,
                                   [r.book EXCEPT !.sequence = book.sequence],
                                   side, k)
                          ELSE r.book = book)
    /\ [][(IsCrossed(book) /\ bcall'.op \in {"set_level", "apply_delta"}) =>
            /\ OtherLevelsKept(book, book', bcall'.side, bcall'.price)
            /\ bcall'.op = "set_level" =>
                  MapGetOr(SideMap(book', bcall'.side), bcall'.price, 0)
                      = bcall'.quantity]_vars

\* set_level added an ask at 60 to a book whose bid at 60 and ask at 40 cross:
\* both are still there and the book is reported crossed
C17_Witness ==
    /\ bcall.op = "set_level"
    /\ bcall.side = "no"
    /\ bcall.price = 60
    /\ bcall.quantity > 0
    /\ 60 \in DOMAIN book.yes_bids
    /\ DOMAIN book.yes_asks = {40, 60}
    /\ IsCrossed(book)

\* the calls so far are set_level(45, 100, Yes) then set_level(55, 75, No)
ScenarioCalls ==
    /\ bcall.op = "set_level"
    /\ bcall.side = "no" /\ bcall.price = 55 /\ bcall.quantity = 75
    /\ bcall.before.op = "set_level"
    /\ bcall.before.side = "yes"
    /\ bcall.before.price = 45 /\ bcall.before.quantity = 100
    /\ bcall.before.before.op = "none"

\* C15 as amended: set_level(P, q, No) with q > 0 stores the level on the ask
\* side at price P itself, not at 100 - P; after set_level(45, 100, Yes) and
\* set_level(55, 75, No) on a new book the best bid is (45, 100), the best
\* ask is (55, 75), is_crossed() is false and spread() is 10.
C15_SetKeepsPrice ==
    /\ (bcall.op = "set_level" /\ bcall.side = "no" /\ bcall.quantity > 0) =>
          /\ bcall.price \in DOMAIN book.yes_asks
          /\ book.yes_asks[bcall.price] = bcall.quantity
    /\ ScenarioCalls =>
          /\ BestBid(book) = Some(<<45, 100>>)
          /\ BestAsk(book) = Some(<<55, 75>>)
          /\ ~IsCrossed(book)
          /\ Spread(book) = Some(10)

\* the two calls of the scenario were made on a new book
C15_Witness ==
    /\ ScenarioCalls
    /\ DOMAIN book.yes_bids = {45}
    /\ DOMAIN book.yes_asks = {55}

\* C15 as stated: set_level(P, q, No) with q > 0 stores the level on the ask
\* side at 100 - P; after set_level(45, 100, Yes) and set_level(55, 75, No)
\* the best bid is (45, 100), the best ask is at 45, is_crossed() is true and
\* spread() is 0.
C15_SetInvertsNoPrice ==
    /\ (bcall.op = "set_level" /\ bcall.side = "no" /\ bcall.quantity > 0) =>
          /\ (100 - bcall.price) \in DOMAIN book.yes_asks
          /\ book.yes_asks[100 - bcall.price] = bcall.quantity
    /\ ScenarioCalls =>
          /\ BestBid(book) = Some(<<45, 100>>)
          /\ BestAsk(book).some
          /\ BestAsk(book).val[1] = 45
          /\ IsCrossed(book)
          /\ Spread(book) = Some(0)

\* markets_needing_resync has collected its result and is about to return it
ResyncResultReady ==
    /\ rcall.op = "markets_needing_resync"
    /\ rpc = "unlock_outer"

WriterHolds(b) ==
    /\ wpc # "idle"
    /\ wev.market = b
    /\ elock[LockOf(b)].writer = "w"

\* the reading thread is inside an accessor called for market a
ReaderIn(a) ==
    /\ rpc # "idle"
    /\ rcall.op \in ReadOps
    /\ rcall.market = a

EventResult(ev) ==
    IF ev.kind = "snapshot"
       THEN SnapshotEntry(ev.pre.val, ev.yes, ev.no, ev.seq, ev.sid)
       ELSE LET one == [k \in {ev.market} |-> ev.pre.val]
            IN ManagerApplyDelta(one, ev.market, ev.side, ev.price, ev.delta,
                                 ev.seq).books[ev.market]

\* C19: an accessor for market M never reads M's entry in the middle of a
\* write: while a snapshot or delta for M is being processed, the entry it
\* reads is the whole entry the message found or the whole entry the message
\* leaves, and what it returns is computed from that entry; no step of an
\* accessor changes the registry.
C19_ReadsConsistentAndPure ==
    /\ [][(rpc = "read" /\ rpc' = "unlock_outer") =>
            LET m == rcall.market
            IN /\ ~(wpc \in SnapshotSection \cup DeltaSection /\ wev.market = m)
               /\ (wpc # "idle" /\ wev.market = m /\ wev.pre.some) =>
                     /\ books[m] \in {wev.pre.val, EventResult(wev)}
                     /\ rcall'.res \in
                            {ManagerRead(rcall.op, wev.pre.val),
                             ManagerRead(rcall.op, EventResult(wev))}]_vars
    /\ [][(rpc' # rpc \/ rcall' # rcall) => books' = books]_vars

\* get_orderbook holds the read lock of an entry that holds a level while
\* a snapshot for the same market waits for the entry's write lock
C19_Witness ==
    /\ rpc = "read"
    /\ rcall.op = "get_orderbook"
    /\ wpc = "lock_entry"
    /\ wev.kind = "snapshot"
    /\ wev.market = rcall.market
    /\ elock[LockOf(rcall.market)].readers = {"r"}
    /\ books[rcall.market].book.yes_bids # EmptyMap
    /\ books[rcall.market].state = "NeedsResync"

\* what the commands sent on a connection subscribe to
Subscribed(sent) ==
    [i \in 1 .. Len(sent) |->
        [channel |-> sent[i].channels[1],
         market_tickers |-> sent[i].market_tickers]]

\* C20: after every successful reconnect, the commands sent on the new
\* connection before it is handed back to the caller are subscribe commands,
\* one per entry of subscription_requests, each on one channel, in the order
\* in which the caller made the calls, each with the channel and the market
\* filter of its call.
C20_ReplayOnReconnect ==
    ws.fresh =>
        /\ ws.client.some
        /\ Len(ws.client.val.sent) = Len(ws.subscription_requests)
        /\ \A i \in 1 .. Len(ws.client.val.sent) :
               /\ ws.client.val.sent[i].cmd = "subscribe"
               /\ Len(ws.client.val.sent[i].channels) = 1
        /\ Subscribed(ws.client.val.sent) = ws.issued

\* a connection is handed back after a failed attempt, with two requests of
\* different channels replayed on it, the second with a market filter
C20_Witness ==
    /\ ws.fresh
    /\ ws.reconnect_attempt = 2
    /\ Len(ws.subscription_requests) = 2
    /\ ws.subscription_requests[1].kind = "UserOrders"
    /\ ws.subscription_requests[2].kind = "Trades"
    /\ ws.subscription_requests[2].tickers = Some(<<"A">>)
    /\ Len(ws.client.val.sent) = 2

\* C21: every subscribe call on the ReconnectingWebSocket appends exactly
\* one entry, which describes the request, to the end of
\* subscription_requests, whether or not anything is sent; with a client
\* the request is forwarded to it (one subscribe command of that channel and
\* filter is sent and its id returned, or the send error is returned);
\* without a client the call returns ConnectionClosed and makes no attempt
\* to connect.
C21_SubscribeAppendsThenForwards ==
    [][ws'.calls = ws.calls + 1 =>
        LET log == ws.subscription_requests
            asked == ws'.issued[Len(ws'.issued)]
        IN  /\ Len(ws'.subscription_requests) = Len(log) + 1
            /\ SubSeq(ws'.subscription_requests, 1, Len(log)) = log
            /\ Described(ws'.subscription_requests[Len(log) + 1]) = asked
            /\ ws'.ret.op = "subscribe"
            /\ ws.client.some =>
                 /\ ws'.client.some
                 /\ \/ /\ ws'.ret.result.kind = "ok"
                       /\ ws'.client.val.sent =
                              Append(ws.client.val.sent,
                                     [cmd |-> "subscribe",
                                      id |-> ws'.ret.result.id,
                                      channels |-> <<asked.channel>>,
                                      market_tickers |-> asked.market_tickers])
                    \/ /\ ws'.ret.result = Err("WebSocket")
                       /\ ws'.client.val.sent = ws.client.val.sent
            /\ ~ws.client.some =>
                 /\ ws'.ret.result = Err("ConnectionClosed")
                 /\ ~ws'.client.some
                 /\ ws'.pc = "idle"
                 /\ ws'.reconnect_attempt = ws.reconnect_attempt
                 /\ ws'.is_reconnecting = ws.is_reconnecting
    ]_vars

\* a subscribe call made without a client has returned ConnectionClosed and
\* its request stands at the end of a log that held an entry already
C21_Witness ==
    /\ ws.ret.op = "subscribe"
    /\ ws.ret.result = Err("ConnectionClosed")
    /\ ~ws.client.some
    /\ Len(ws.subscription_requests) = 2
    /\ ws.subscription_requests[2].kind = "Fills"

\* C22: next of the ReconnectingWebSocket sorts what its client returns: a
\* message sets reconnect_attempt to 0 and is returned; a close frame or the
\* end of the stream drops the client and starts the reconnection, and after
\* a reconnection made for next the call reads on from the new client; any
\* other error (transport error, frame that does not parse) is returned with
\* the client kept, no reconnection started, and reconnect_attempt as it
\* was; in each case subscription_requests stays as it was.
C22_NextSortsOutcomes ==
    [][/\ (ws.pc \in {"idle", "receive"} /\ ws.client.some
           /\ ws'.ret.op = "next" /\ ws' # ws) =>
            /\ ws'.subscription_requests = ws.subscription_requests
            /\ ws'.ret.frame = "text" =>
                 /\ ws'.ret.result.kind = "msg"
                 /\ ws'.reconnect_attempt = 0
                 /\ ws'.client.some
                 /\ ws'.pc = "idle"
            /\ ws'.ret.frame \in {"close", "end"} =>
                 /\ ~ws'.client.some
                 /\ ws'.pc = "attempt_reconnect"
                 /\ ws'.is_reconnecting
                 /\ ws'.reconnect_attempt = ws.reconnect_attempt
            /\ ws'.ret.frame \in {"error", "malformed", "ping"} =>
                 /\ ws'.ret.result.kind = "err"
                 /\ ws'.ret.result.err # "ConnectionClosed"
                 /\ ws'.client = ws.client
                 /\ ws'.pc = "idle"
                 /\ ~ws'.is_reconnecting
                 /\ ws'.reconnect_attempt = ws.reconnect_attempt
       /\ (ws.pc = "attempt_reconnect" /\ ws.caller = "next"
           /\ ws'.client.some) => ws'.pc = "receive"
    ]_vars

\* after a reconnection that counted an attempt, a frame that does not parse
\* was returned as an error: the client is attached, the attempt count kept
C22_Witness ==
    /\ ws.ret.op = "next"
    /\ ws.ret.frame = "malformed"
    /\ ws.ret.result = Err("Json")
    /\ ws.client.some
    /\ ws.reconnect_attempt = 1
    /\ Len(ws.subscription_requests) = 1

\* C23: with max_retries = R > 0, reconnect_attempt never exceeds R, one run
\* of the loop of attempt_reconnect makes at most R connect attempts, and
\* the loop always ends: with a client attached, or, once reconnect_attempt
\* has reached R, with a ConnectionClosed error and no client.
C23_BoundedRetries ==
    /\ [](ws.reconnect_config.max_retries > 0 =>
            /\ ws.reconnect_attempt <= ws.reconnect_config.max_retries
            /\ ws.connects <= ws.reconnect_config.max_retries)
    /\ [][(/\ ws.reconnect_config.max_retries > 0
           /\ ws.pc = "attempt_reconnect"
           /\ ws'.pc # "attempt_reconnect") =>
             \/ ws'.client.some
             \/ /\ ~ws'.client.some
                /\ ws'.reconnect_attempt = ws.reconnect_config.max_retries
                /\ ws'.ret.result = Err("ConnectionClosed")
       ]_vars
    /\ ((ws.reconnect_config.max_retries > 0 /\ ws.pc = "attempt_reconnect")
          ~> ws.pc # "attempt_reconnect")

\* a run of the loop entered with a count of 0 has made as many connect
\* attempts as max_retries allows and ended with ConnectionClosed
C23_Witness ==
    /\ ws.reconnect_config.max_retries = MaxRetries
    /\ ws.pc = "idle"
    /\ ws.ret.op = "reconnect"
    /\ ws.ret.result = Err("ConnectionClosed")
    /\ ws.connects = MaxRetries
    /\ ws.reconnect_attempt = MaxRetries
    /\ ~ws.client.some

\* C24: next returns a ConnectionClosed error only in a state where
\* max_retries > 0 and reconnect_attempt has reached max_retries; with
\* retries left, and always with max_retries = 0, a closed connection is
\* not returned to the caller as an error.
C24_ClosedOnlyAfterExhaustion ==
    (ws.ret.op = "next" /\ ws.ret.result = Err("ConnectionClosed")) =>
        /\ ws.reconnect_config.max_retries > 0
        /\ ws.reconnect_attempt = ws.reconnect_config.max_retries
        /\ ~ws.client.some

\* next has returned ConnectionClosed from a run of the loop that had one
\* attempt left when the connection closed
C24_Witness ==
    /\ ws.ret.op = "next"
    /\ ws.ret.result = Err("ConnectionClosed")
    /\ ws.connects = 1
    /\ ws.reconnect_attempt = MaxRetries

\* C25: when the replay on a newly opened connection fails partway, that
\* connection is dropped, the attempt is counted, and the loop goes on with
\* subscription_requests as it was; a client attached by a reconnection
\* carries one successfully sent subscribe command for every entry, from the
\* first entry on, with the ids of a new connection.
C25_PartialReplayFailsAttempt ==
    /\ [][(/\ ws.pc = "attempt_reconnect"
           /\ ws' # ws
           /\ ws'.ret.op = "attempt"
           /\ ws'.ret.connected
           /\ ws'.ret.failAt > 0) =>
             /\ ~ws'.client.some
             /\ ws'.pc = "attempt_reconnect"
             /\ ws'.is_reconnecting
             /\ ws'.reconnect_attempt = ws.reconnect_attempt + 1
             /\ ws'.subscription_requests = ws.subscription_requests
       ]_vars
    /\ [](ws.fresh =>
            /\ ws.client.some
            /\ Len(ws.client.val.sent) = Len(ws.subscription_requests)
            /\ \A i \in 1 .. Len(ws.subscription_requests) :
                 /\ ws.client.val.sent[i].id = i
                 /\ ws.client.val.sent[i].channels =
                        <<Described(ws.subscription_requests[i]).channel>>
                 /\ ws.client.val.sent[i].market_tickers =
                        Described(ws.subscription_requests[i]).market_tickers)

\* a connection was opened and the replay of two entries failed at the
\* second send: no client is attached and the loop goes on
C25_Witness ==
    /\ ws.ret.op = "attempt"
    /\ ws.ret.connected
    /\ ws.ret.failAt = 2
    /\ Len(ws.subscription_requests) = 2
    /\ ws.pc = "attempt_reconnect"
    /\ ~ws.client.some

\* the delays of test_delay_calculation for attempts 0 .. 4
TestDelays == <<100, 200, 400, 800, 1000>>

\* what holds of every backoff sleep whatever the multiplier: the delay
\* slept is delay_for_attempt of the attempt count before it was counted
\* up, it is at most max_delay_ms, and under the configuration of
\* test_delay_calculation attempts 0 .. 4 sleep 100, 200, 400, 800, 1000 ms
SleepIsDelayOfAttempt ==
    ws.ret.op = "attempt" =>
        LET cfg == ws.reconnect_config
            k == ws.reconnect_attempt - 1
        IN  /\ ws.ret.slept = DelayForAttempt(cfg, k)
            /\ ws.ret.slept <= cfg.max_delay_ms
            /\ (/\ cfg.initial_delay_ms = 100
                /\ cfg.max_delay_ms = 1000
                /\ cfg.backoff_multiplier = [num |-> 2, den |-> 1]
                /\ k < Len(TestDelays)) => ws.ret.slept = TestDelays[k + 1]

\* C26 (as amended): the delay slept before each connect attempt is
\* delay_for_attempt of reconnect_attempt taken before the counter is
\* incremented; it never exceeds max_delay; with initial_delay 100 ms,
\* multiplier 2 and max_delay 1000 ms attempts 0 .. 4 give 100, 200, 400,
\* 800, 1000 ms; and with a multiplier of at least 1 delay_for_attempt is
\* non-decreasing in the attempt.
C26_BackoffDelays ==
    /\ SleepIsDelayOfAttempt
    /\ (/\ ws.ret.op = "attempt"
        /\ ws.reconnect_config.backoff_multiplier.num
             >= ws.reconnect_config.backoff_multiplier.den) =>
           ws.ret.slept <= DelayForAttempt(ws.reconnect_config,
                                           ws.reconnect_attempt)

\* under the configuration of test_delay_calculation the loop has slept the
\* capped delay of attempt 4
C26_Witness ==
    /\ ws.ret.op = "attempt"
    /\ ws.reconnect_config.initial_delay_ms = 100
    /\ ws.reconnect_config.max_delay_ms = 1000
    /\ ws.reconnect_config.backoff_multiplier = [num |-> 2, den |-> 1]
    /\ ws.reconnect_attempt = 5
    /\ ws.ret.slept = 1000

\* C26 (as stated): the same, with delay_for_attempt non-decreasing in the
\* attempt for every configuration.
C26_BackoffNonDecreasing ==
    /\ SleepIsDelayOfAttempt
    /\ ws.ret.op = "attempt" =>
           ws.ret.slept <= DelayForAttempt(ws.reconnect_config,
                                           ws.reconnect_attempt)

----------------------------------------------------------------------------
(* The tables of the stand-alone WebSocketClient.                           *)

\* the last step was a call of next that returned a message of this type
NextReturned(call, type) ==
    /\ call.op = "next"
    /\ call.result.kind = "msg"
    /\ call.result.msg.type = type

\* the active subscription an acknowledgment makes of a pending request
Promoted(pending, sid) ==
    [sid |-> sid, channel |-> pending.channel,
     market_tickers |-> pending.market_tickers]

\* the entries of table m that table n lacks or holds with another value
Gained(m, n) == {k \in DOMAIN n : k \notin DOMAIN m \/ n[k] # m[k]}

C29_UnsubscribeOnAck ==
    [][LET subs == client.subscriptions
       IN  /\ ccall'.op = "unsubscribe" => client'.subscriptions = subs
           /\ \A s \in DOMAIN subs \ DOMAIN client'.subscriptions :
                 /\ NextReturned(ccall', "unsubscribed")
                 /\ ccall'.result.msg.sid = s
           /\ NextReturned(ccall', "unsubscribed")
                => client'.subscriptions
                      = MapRemove(subs, ccall'.result.msg.sid)
      ]_vars

\* C29 witness: an unsubscribe command was sent, next has returned the
\* Unsubscribed message, its sid is gone and another subscription is still
\* active
C29_Witness ==
    /\ NextReturned(ccall, "unsubscribed")
    /\ ccall.result.msg.sid \notin DOMAIN client.subscriptions
    /\ client.subscriptions # EmptyMap
    /\ \E i \in 1..Len(client.sent) :
          /\ client.sent[i].cmd = "unsubscribe"
          /\ client.sent[i].sids = <<ccall.result.msg.sid>>

\* the calls of the client that send a command and note nothing
SendingOnly ==
    {"unsubscribe", "update_subscription", "list_subscriptions", "close"}

\* C30: a subscribe method adds the pending request under the message id of
\* the call and changes nothing else in the two tables; unsubscribe,
\* update_subscription, list_subscriptions and close leave both tables as
\* they were; only next changes the active subscriptions or takes a request
\* out of the pending table.
C30_OnlyNextPromotes ==
    [][LET subs == client.subscriptions
           pend == client.pending_subscriptions
       IN  /\ ccall'.op = "subscribe"
                => /\ client'.subscriptions = subs
                   /\ DOMAIN client'.pending_subscriptions
                         = DOMAIN pend \cup {client.message_id}
                   /\ \A k \in DOMAIN pend \ {client.message_id} :
                         client'.pending_subscriptions[k] = pend[k]
           /\ ccall'.op \in SendingOnly
                => /\ client'.subscriptions = subs
                   /\ client'.pending_subscriptions = pend
           /\ (\/ client'.subscriptions # subs
               \/ DOMAIN pend \ DOMAIN client'.pending_subscriptions # {})
                => ccall'.op = "next"
      ]_vars

\* C30 witness: with a subscription active and a request pending, an
\* unsubscribe command has been sent
C30_Witness ==
    /\ ccall.op = "unsubscribe"
    /\ ccall.result.kind = "ok"
    /\ client.subscriptions # EmptyMap
    /\ client.pending_subscriptions # EmptyMap
    /\ client.sent[Len(client.sent)].cmd = "unsubscribe"

\* C30 as first stated: no call other than next changes either table
C30_OnlyNextMutates ==
    [][ccall'.op \notin {"next", "reading"}
         => /\ client'.subscriptions = client.subscriptions
            /\ client'.pending_subscriptions = client.pending_subscriptions
      ]_vars

\* C31: on one connection the k-th command written carries the id k, whatever
\* its kind, and the message id of the client is one more than the number of
\* commands written; a subscribe call that returns Ok(id) has written its
\* command last, with that id, and the pending request is stored under it.
C31_CommandIds ==
    /\ [](/\ client.message_id = Len(client.sent) + 1
          /\ \A k \in 1..Len(client.sent) : client.sent[k].id = k)
    /\ [][(ccall'.op = "subscribe" /\ ccall'.result.kind = "ok")
            => LET id == ccall'.result.id
                   cmd == client'.sent[Len(client'.sent)]
               IN  /\ Len(client'.sent) = Len(client.sent) + 1
                   /\ cmd.cmd = "subscribe"
                   /\ cmd.id = id
                   /\ id \in DOMAIN client'.pending_subscriptions
                   /\ <<client'.pending_subscriptions[id].channel>>
                         = cmd.channels
                   /\ client'.pending_subscriptions[id].market_tickers
                         = cmd.market_tickers
         ]_vars

\* C31 witness: a subscribe call has returned the id 2 after a command of
\* another kind was written with the id 1
C31_Witness ==
    /\ ccall.op = "subscribe"
    /\ ccall.result = OkId(2)
    /\ Len(client.sent) = 2
    /\ client.sent[1].cmd # "subscribe"
    /\ client.sent[2].id = 2
    /\ 2 \in DOMAIN client.pending_subscriptions

\* C40: every key of the pending table is the id of a subscribe command
\* written on this connection, and so is below the message id the next
\* command will carry.
C40_PendingKeysWereSent ==
    \A k \in DOMAIN client.pending_subscriptions :
        /\ k < client.message_id
        /\ \E i \in 1..Len(client.sent) :
              /\ client.sent[i].cmd = "subscribe"
              /\ client.sent[i].id = k

\* the price at which apply_delta_msg updates the map of the side
YesPriceOf(side, price) == IF side = "yes" THEN price ELSE 100 - price

\* C32: an accepted apply_delta_msg(side, price, delta, sequence) leaves the
\* levels of the book as apply_delta(price, delta, side) on the same book
\* leaves them when the side is Yes, and as apply_delta(100 - price, delta,
\* No) leaves them when the side is No; it also stores the sequence.  A
\* rejected one leaves the book as it was.
C32_DeltaMsgIsAdjust ==
    bcall.op = "apply_delta_msg"
        => IF bcall.ok
           THEN book = [BookApplyDelta(bcall.before,
                                       YesPriceOf(bcall.side, bcall.price),
                                       bcall.delta, bcall.side)
                           EXCEPT !.sequence = bcall.sequence]
           ELSE book = bcall.before

\* C32 witness: an accepted delta of the No side at price 40 has added to
\* the ask level at 60, which held a quantity before
C32_Witness ==
    /\ bcall.op = "apply_delta_msg"
    /\ bcall.ok
    /\ bcall.side = "no"
    /\ bcall.price = 40
    /\ bcall.delta > 0
    /\ 60 \in DOMAIN bcall.before.yes_asks
    /\ book.yes_asks[60] = bcall.before.yes_asks[60] + bcall.delta
    /\ 40 \notin DOMAIN book.yes_asks

\* C32 as first stated: an accepted apply_delta_msg leaves the levels that
\* apply_delta leaves when given the same side and the same price
C32_DeltaMsgIsAdjustAtPrice ==
    (bcall.op = "apply_delta_msg" /\ bcall.ok)
        => LET adjusted == BookApplyDelta(bcall.before, bcall.price,
                                          bcall.delta, bcall.side)
           IN  /\ book.yes_bids = adjusted.yes_bids
               /\ book.yes_asks = adjusted.yes_asks

\* the saved requests were only extended, by the request of a subscribe
\* call, or emptied by clear_subscriptions
LogStep(w, nw) ==
    \/ nw.subscription_requests = w.subscription_requests
    \/ /\ nw.ret.op = "subscribe"
       /\ Len(nw.subscription_requests) = Len(w.subscription_requests) + 1
       /\ SubSeq(nw.subscription_requests, 1, Len(w.subscription_requests))
             = w.subscription_requests
    \/ /\ nw.ret.op = "clear_subscriptions"
       /\ nw.subscription_requests = <<>>

\* a subscribe command for this channel and market filter is among the sent
Resubscribed(sent, info) ==
    \E j \in 1..Len(sent) :
        /\ sent[j].cmd = "subscribe"
        /\ sent[j].channels = <<info.channel>>
        /\ sent[j].market_tickers = info.market_tickers

\* C33: no step other than clear_subscriptions takes an entry out of
\* subscription_requests: a subscribe call appends one, a call of next that
\* returns an Unsubscribed message (or any other message) leaves the vector
\* as it is while the sid leaves the table of the client; so when a
\* reconnection hands back a new connection, a subscribe command was sent on
\* it for every saved request, those of subscriptions an Unsubscribed message
\* had ended included.
C33_ReplayLogNotPruned ==
    /\ [][LogStep(ws, ws')]_vars
    /\ [][(/\ ws'.ret.op = "next"
           /\ ws'.ret.result.kind = "msg"
           /\ ws'.ret.result.msg.type = "unsubscribed")
            => /\ ws'.subscription_requests = ws.subscription_requests
               /\ ws'.ret.result.msg.sid
                     \notin DOMAIN ws'.client.val.subscriptions]_vars
    /\ [](ws.fresh =>
            \A i \in 1..Len(ws.dropped) :
                (\E k \in 1..Len(ws.subscription_requests) :
                    Described(ws.subscription_requests[k]) = ws.dropped[i])
                  => Resubscribed(ws.client.val.sent, ws.dropped[i]))

\* C33 witness: a subscription was active, an Unsubscribed message ended it,
\* the connection was lost, and the new connection has its subscribe
\* command sent again
C33_Witness ==
    /\ ws.fresh
    /\ Len(ws.dropped) = 1
    /\ Len(ws.subscription_requests) = 1
    /\ Described(ws.subscription_requests[1]) = ws.dropped[1]
    /\ Resubscribed(ws.client.val.sent, ws.dropped[1])
    /\ ws.client.val.subscriptions = EmptyMap

\* no client, and the attempts that max_retries > 0 allows are used up, in
\* or between calls other than reconnect
Stuck(w) ==
    /\ w.reconnect_config.max_retries > 0
    /\ ~w.client.some
    /\ w.reconnect_attempt >= w.reconnect_config.max_retries
    /\ w.caller # "reconnect"

C35_AttemptResetOnlyByEvent ==
    [][/\ ws'.reconnect_attempt < ws.reconnect_attempt
            => /\ ws'.reconnect_attempt = 0
               /\ \/ /\ ws'.ret.op = "next"
                     /\ ws'.ret.result.kind = "msg"
                  \/ /\ ws.pc = "idle"
                     /\ ws'.caller = "reconnect"
       /\ ws'.fresh
            => /\ ws'.client.some
               /\ ws'.reconnect_attempt = ws.reconnect_attempt + 1
       /\ (ws.pc = "receive" /\ ws'.pc = "attempt_reconnect")
            => ws'.reconnect_attempt = ws.reconnect_attempt
      ]_vars

\* C35 witness: next has returned ConnectionClosed with the retries of
\* max_retries used up, the saved request was replayed each time, and no
\* connect and no replay has failed since the count was 0
C35_Witness ==
    /\ ws.ret = [op |-> "next", result |-> Err("ConnectionClosed")]
    /\ ws.reconnect_config.max_retries = MaxRetries
    /\ ws.reconnect_attempt = MaxRetries
    /\ ~ws.failed
    /\ ~ws.client.some
    /\ ws.subscription_requests # <<>>

\* the call of next in progress found no client and follows a call of close
NextAfterClose(w) ==
    /\ w.pc = "attempt_reconnect"
    /\ w.ret.op = "next"
    /\ w.ret.frame = "no client"
    /\ w.ret.after = "close"

\* C36: a close that returns Ok leaves no client, and subscription_requests
\* and reconnect_attempt as they were; the call of next that follows enters
\* attempt_reconnect, which, unless the retries of max_retries > 0 are used
\* up, makes a connect attempt, and when that attaches a client every saved
\* request was replayed on it and next reads on from it; with the retries
\* used up the call returns ConnectionClosed.
C36_CloseNotTerminal ==
    [][/\ (ws.pc = "idle" /\ ws'.ret.op = "close" /\ ws'.ret.result = OkUnit)
            => /\ ~ws'.client.some
               /\ ws'.subscription_requests = ws.subscription_requests
               /\ ws'.reconnect_attempt = ws.reconnect_attempt
               /\ ws'.pc = "idle"
       /\ (ws.pc = "idle" /\ ws.ret.op = "close" /\ ~ws.client.some
           /\ ws'.ret.op = "next")
            => NextAfterClose(ws')
       /\ NextAfterClose(ws)
            => IF RetriesExhausted(ws)
               THEN ws'.ret = [op |-> "next",
                               result |-> Err("ConnectionClosed")]
               ELSE /\ ws'.ret.op = "attempt"
                    /\ ws'.connects = 1
                    /\ ws'.client.some
                         => /\ ws'.pc = "receive"
                            /\ Len(ws'.client.val.sent)
                                  = Len(ws.subscription_requests)
                            /\ Subscribed(ws'.client.val.sent) = ws.issued
      ]_vars

\* C36 witness: after a close that returned Ok, with a request saved and an
\* attempt counted, next was called and is about to open a connection
C36_Witness ==
    /\ NextAfterClose(ws)
    /\ ~RetriesExhausted(ws)
    /\ ~ws.client.some
    /\ ws.reconnect_attempt = 1
    /\ Len(ws.subscription_requests) = 1

\* C36 as first stated: the call of next that follows a close always makes a
\* connect attempt
C36_NextAfterCloseConnects ==
    [][NextAfterClose(ws) => ws'.ret.op = "attempt"]_vars

\* C37: a market in WaitingForSnapshot has the book of a new entry, with no
\* level on either side and sequence 0; an entry that a step keeps is in
\* WaitingForSnapshot after the step only when it was before, and a market
\* that a step adds is in WaitingForSnapshot only when the step is
\* add_market.
C37_WaitingIsNew ==
    /\ [](\A m \in DOMAIN books :
            books[m].state = "WaitingForSnapshot"
                => /\ books[m].book.yes_bids = EmptyMap
                   /\ books[m].book.yes_asks = EmptyMap
                   /\ books[m].book.sequence = 0)
    /\ [][\A m \in DOMAIN books' :
            books'[m].state = "WaitingForSnapshot"
                => IF m \in DOMAIN books
                   THEN books[m].state = "WaitingForSnapshot"
                   ELSE last'.op = "add_market"]_vars

\* C37 witness: a delta was delivered for a market that waits for its
\* snapshot, after the other market was synchronized with a level and then
\* marked for resync; the waiting market is as add_market made it
C37_Witness ==
    /\ last.op = "delta"
    /\ DOMAIN books = Markets
    /\ books[last.market].state = "WaitingForSnapshot"
    /\ books[last.market].book = OrderbookNew
    /\ \E m \in Markets :
          /\ books[m].state = "NeedsResync"
          /\ books[m].book.yes_bids # EmptyMap

\* C38: the registry is deadlock-free. A thread asks for the membership lock
\* only while it holds no lock at all, asks for a per-market lock only while
\* it holds the membership lock for reading and no per-market lock, and
\* holds a per-market lock only under the membership lock; and in every
\* state where some call is in progress, a thread in a call can take its
\* next step even if readers wait behind parked writers.
LockOrder(t) ==
    /\ tpc[t] \in {"write_outer", "lookup"} =>
           /\ ~HoldsOuterRead(t)
           /\ ~HoldsOuterWrite(t)
           /\ EntriesHeld(t) = {}
    /\ tpc[t] = "lock_entry" => HoldsOuterRead(t) /\ EntriesHeld(t) = {}
    /\ EntriesHeld(t) # {} =>
           HoldsOuterRead(t) /\ Cardinality(EntriesHeld(t)) = 1
    /\ ~(HoldsOuterRead(t) /\ HoldsOuterWrite(t))
C38_DeadlockFree ==
    /\ \A t \in Threads : LockOrder(t)
    /\ (\E t \in Threads : tpc[t] # "idle") =>
           \E t \in Threads : tpc[t] # "idle" /\ GrantedFair(t)
\* the snapshot of one thread has dropped its read guard and waits for the
\* write lock of the map, which the other thread holds for reading while
\* it waits for the lock of an entry
C38_Witness ==
    \E t \in Threads, u \in Threads :
        /\ tpc[t] = "write_outer"
        /\ tcall[t].op = "apply_snapshot"
        /\ tcall[t].added
        /\ ~Granted(t)
        /\ HoldsOuterRead(u)
        /\ tpc[u] \in {"read", "snap", "delta_test", "lock_entry"}

\* C39: the sequence test and the update of apply_delta are atomic per
\* market. A delta that has passed the test still finds the market
\* Synchronized and its sequence number in order when it is applied; and
\* when two threads deliver the same delta, with sequence last_sequence + 1,
\* for a Synchronized market, one call applies it, the other reports the
\* gap, the quantity of the level has changed by one delta and the market
\* needs a resync.
BothDelivered(t, u) ==
    /\ t # u
    /\ tpc[t] = "idle"
    /\ tpc[u] = "idle"
    /\ tcall[t].raced
    /\ tcall[u].raced
C39_SequenceCheckAtomic ==
    /\ \A t \in Threads :
           tpc[t] = "delta_apply" =>
               /\ books[tcall[t].market].state = "Synchronized"
               /\ ~SequenceGap(books[tcall[t].market].book, tcall[t].seq)
    /\ \A t \in Threads, u \in Threads :
           BothDelivered(t, u) =>
               /\ {tcall[t].res, tcall[u].res} = {"applied", "gap"}
               /\ tcall[t].market \in DOMAIN books
               /\ books[tcall[t].market].state = "NeedsResync"
               /\ books[tcall[t].market].book.sequence = tcall[t].seq
               /\ MapGetOr(books[tcall[t].market].book.yes_bids, 40, 0) =
                      tcall[t].pre + 1
C39_Witness ==
    \E t \in Threads, u \in Threads :
        /\ BothDelivered(t, u)
        /\ tcall[t].res = "applied"
        /\ tcall[u].res = "gap"

====
